---- MODULE Spec2Model ----
(***************************************************************************)
(* eth-notifier: the slot processing core.                                 *)
(*                                                                         *)
(* The scheduler (mainLoop, src/ethNotifier.js 399-772) polls the beacon   *)
(* head, computes the safe slot, asks getNewBlocks for the blocks after    *)
(* the cursor (lastBlock), cuts the range into batches and, batch by       *)
(* batch, fetches duties / committees / attestations / withdrawals         *)
(* (lighthouse-api part of src/ethNotifier.js, 795-1408), reconciles them  *)
(* into notifications and saves the cursor with nconf.                     *)
(*                                                                         *)
(* The beacon chain is immutable data (blocks, committees, duties); what   *)
(* varies is the head the node reports and which HTTP requests fail.       *)
(***************************************************************************)
EXTENDS Integers, Sequences, FiniteSets, TLC

\* ------------------------------------------------------------------ bounds
\* nconf 'batchSize' (default 100): slots per batch, scaled down.
batchSize == 20
\* The beacon node's head stays at or below MaxHead.
MaxHead == 100
\* nconf 'epochsBeforeFinal' is drawn from 0..MaxEpochsBeforeFinal.
MaxEpochsBeforeFinal == 1
\* At most MaxFaults beacon requests of a run fail, and at most MaxFailedPolls
\* polls fail on the head request.
MaxFaults == 1
MaxFailedPolls == 1
\* nconf 'lastBlock' at start-up.
CursorInitial == 0
\* The clock starts StartMinutes after genesis and is followed for
\* MaxElapsedMinutes; at most MaxDelivered stale/error messages are followed.
StartMinutes == 60
MaxElapsedMinutes == 40
MaxDelivered == 3
\* The cache is followed for MaxCalls calls of getCachedBlock and
\* getCachedCommittees; maxSize (2000 in cache.js) is scaled down.
MaxCalls == 3
\* The slots one batch pre-fetches committees for (batchSize + 32 in the
\* code), the last of them beyond the batch end; and the largest configured
\* 'maxConcurrentRequests'.
PrefetchSpan == 3
MaxConcurrent == 4
\* How many times mainLoop is called in a run, the most batches one
\* iteration has, and the most batches of a run.
MaxInvocations == 4
MaxNumBatches == 2
MaxBatches == 3
\* The largest maxSize a cache is built with, and the set calls of a run.
MaxMaxSize == 11
MaxSets == 12
\* The longest bit sequence the decoders are given.
MaxBits == 9
\* records handed to one deduplication; validators of a legacy committee
MaxRows == 3
MaxCommitteeSize == 5
CacheMaxSize == 10

\* ------------------------------------------------------- program constants
SLOTS_PER_EPOCH == 32
SECONDS_PER_SLOT == 12
\* "Attestations from slot X can be included in blocks X+1 through X+32"
InclusionSlots == 32

\* ---------------------------------------------------------------- helpers
Min(a, b) == IF a <= b THEN a ELSE b
Max(a, b) == IF a >= b THEN a ELSE b
SetMax(S) == CHOOSE x \in S : \A y \in S : y <= x
SetMin(S) == CHOOSE x \in S : \A y \in S : x <= y
\* Math.ceil(a / b) for a >= 0, b > 0
Ceil(a, b) == (a + b - 1) \div b

RECURSIVE SortedSeq(_)
\* the elements of a finite set of integers in ascending order
SortedSeq(S) == IF S = {} THEN << >>
                ELSE LET m == SetMin(S) IN <<m>> \o SortedSeq(S \ {m})

RECURSIVE Pow2(_)
Pow2(i) == IF i = 0 THEN 1 ELSE 2 * Pow2(i - 1)

SeqToSet(q) == {q[i] : i \in 1..Len(q)}

RECURSIVE SeqSum(_)
SeqSum(q) == IF q = << >> THEN 0 ELSE Head(q) + SeqSum(Tail(q))

\* --------------------------------------------------------- the beacon chain
\* Validators 1 and 2 are the ones a configuration monitors; 3 stands for
\* everybody else.
Validators == 1..3
Monitored == {1, 2}

\* Slots without a block (the node answers 404): 8 is a missed proposal of
\* validator 1; 32 is an epoch boundary, i.e. a possible safe slot.
NoBlockSlots == {8, 32}
HasBlock(s) == s >= 1 /\ s \notin NoBlockSlots

\* /eth/v1/validator/duties/proposer/{epoch}: one duty per slot.
ProposerOf(s) == CASE s \in {8, 40} -> 1
                   [] s = 20 -> 2
                   [] OTHER -> 3

\* /eth/v1/beacon/states/{slot}/committees: the committees of a slot, in
\* index order (element i is committee index i-1).
\* Slot 199, beyond every head of a run, has four committees of sizes 2, 2, 3
\* and 2 for the decoding of Electra aggregates.
Committees(s) == CASE s \in {6, 38} -> << <<3, 1>>, <<3>> >>
                   [] s \in {15, 57, 60} -> << <<3>>, <<2, 3>> >>
                   [] s = 199 -> << <<10, 20>>, <<11, 12>>, <<21, 22, 23>>, <<31, 32>> >>
                   [] OTHER -> << <<3>> >>

\* An attestation as a block carries it; aggregation_bits and committee_bits
\* are the bytes of the hex strings, committee_bits << >> when absent.
Att(s, i, ab, cb) ==
    [slot |-> s, index |-> i, aggregation_bits |-> ab, committee_bits |-> cb]

\* body.attestations of the block at slot b.
\*   slot  6, committee 0 = [3,1]: both attest, included in block 7 (legacy)
\*   slot 15, committee 1 = [2,3]: 2 attests, included at the window edge
\*            15+32 = 47 as an Electra aggregate (committee_bits 0x02)
\*   slot 38, committee 0 = [3,1]: only 3 attests (validator 1 misses)
\*   slot 57, committee 1 = [2,3]: both attest, block 58; the same
\*            attestation is included again in block 90 = 57+33
\*   slot 60, committee 1 = [2,3]: both attest, included in block
\*            93 = 60+33 only, one slot after the window
AttestationsOf(b) ==
    CASE b = 7  -> << Att(6, 0, <<7>>, << >>) >>
      [] b = 47 -> << Att(15, 0, <<5>>, <<2>>) >>
      [] b = 39 -> << Att(38, 0, <<5>>, << >>) >>
      [] b = 58 -> << Att(57, 1, <<7>>, << >>) >>
      [] b = 90 -> << Att(57, 1, <<7>>, << >>) >>
      [] b = 93 -> << Att(60, 1, <<7>>, << >>) >>
      [] OTHER  -> << >>

\* execution_payload.withdrawals of the block at slot b (amounts in gwei).
WithdrawalsOf(b) ==
    CASE b = 10 -> << [validator_index |-> 1, amount |-> 3] >>
      [] b = 45 -> << [validator_index |-> 3, amount |-> 9],
                      [validator_index |-> 2, amount |-> 4],
                      [validator_index |-> 1, amount |-> 5] >>
      [] OTHER  -> << >>

\* /eth/v2/beacon/blocks/{slot}
BeaconBlock(s) ==
    [slot |-> s, proposer_index |-> ProposerOf(s),
     exec_block_number |-> 1000 + s,
     attestations |-> AttestationsOf(s), withdrawals |-> WithdrawalsOf(s)]

\* ------------------------------------------------------ lighthouse-api
slotToEpoch(slot) == slot \div SLOTS_PER_EPOCH

getEpochRangeFromOnly(fromSlot, toSlot) == {slotToEpoch(fromSlot)}
getEpochRange(fromSlot, toSlot) == slotToEpoch(fromSlot)..slotToEpoch(toSlot)

\* bytes -> bits, LSB first within each byte; bit position p (0-based) is
\* element p+1.
BitsOfMsbFirst(bytes) ==
    [k \in 1..(8 * Len(bytes)) |->
        (bytes[((k - 1) \div 8) + 1] \div Pow2(7 - ((k - 1) % 8))) % 2]
BitsOf(bytes) ==
    [k \in 1..(8 * Len(bytes)) |->
        (bytes[((k - 1) \div 8) + 1] \div Pow2((k - 1) % 8)) % 2]

\* position (0-based) of the highest set bit, -1 when no bit is set
delimiterPosLowest(bits) ==
    LET S == {k \in 1..Len(bits) : bits[k] = 1}
    IN IF S = {} THEN -1 ELSE SetMin(S) - 1
delimiterPos(bits) ==
    LET S == {k \in 1..Len(bits) : bits[k] = 1}
    IN IF S = {} THEN -1 ELSE SetMax(S) - 1

decodeCommitteeBits(committeeBits, totalCommittees) ==
    LET bits == BitsOf(committeeBits)
    IN SortedSeq({c \in 0..(Len(bits) - 1) :
                     c < totalCommittees /\ bits[c + 1] = 1})

decodeAggregationBitsWithDelimiter(aggregationBits, committeeValidators) ==
    LET bits == BitsOf(aggregationBits)
        d == delimiterPos(bits)
        idx == SortedSeq({i \in 0..(Len(committeeValidators) - 1) :
                             i <= d /\ bits[i + 1] = 1})
    IN IF d < 0 THEN << >>
       ELSE [j \in 1..Len(idx) |-> committeeValidators[idx[j] + 1]]
decodeAggregationBits(aggregationBits, committeeValidators) ==
    LET bits == BitsOf(aggregationBits)
        d == delimiterPos(bits)
        idx == SortedSeq({i \in 0..(Len(committeeValidators) - 1) :
                             i < d /\ bits[i + 1] = 1})
    IN IF d < 0 THEN << >>
       ELSE [j \in 1..Len(idx) |-> committeeValidators[idx[j] + 1]]

\* A failed beacon request is named <<kind, a, b>>:
\*   <<"block", s, 0>>        getCachedBlock(s) inside getNewBlocks
\*   <<"duties", e, 0>>       the proposer-duties request of epoch e
\*   <<"committees", s, 0>>   getCachedCommittees(s) inside getAttestationDuties
\*   <<"attblock", b, 0>>     getCachedBlock(b) inside getAttestations
\*   <<"attcomm", b, i>>      getCachedCommittees for attestation i of block b
\*   <<"wblock", s, 0>>       getCachedBlock(s) inside getBeaconWithdrawals
\* A failed block request stands for both ways getCachedBlock hides an existing
\* block from its caller: it throws (non-404 error), or the cache holds an
\* expired entry and getBlock returns null. A failed committees request
\* likewise: the request throws, or the expired entry makes the caller throw
\* on null. Every caller treats both the same way (the slot is skipped).

\* getNewBlocks: the slots of the rows it returns, ascending. The rows carry
\* the block's proposer_index and execution block number (BeaconBlock).
getNewBlocksFromInclusive(fromBlockId, headSlot, failed) ==
    {s \in fromBlockId..headSlot :
        HasBlock(s) /\ <<"block", s, 0>> \notin failed}
getNewBlocks(fromBlockId, headSlot, failed) ==
    {s \in (fromBlockId + 1)..headSlot :
        HasBlock(s) /\ <<"block", s, 0>> \notin failed}

EpochSlots(epoch) ==
    (epoch * SLOTS_PER_EPOCH)..(epoch * SLOTS_PER_EPOCH + SLOTS_PER_EPOCH - 1)

\* the range test of getProposerDuties
DutySlotInRangeInclusive(slot, fromBlockId, toBlockId) ==
    slot >= fromBlockId /\ slot <= toBlockId
DutySlotInRange(slot, fromBlockId, toBlockId) ==
    slot > fromBlockId /\ slot <= toBlockId

getProposerDuties(fromBlockId, toBlockId, validators, failed) ==
    LET epochs == {e \in getEpochRange(fromBlockId, toBlockId) :
                      <<"duties", e, 0>> \notin failed}
        slots == SortedSeq({s \in UNION {EpochSlots(e) : e \in epochs} :
                               /\ DutySlotInRange(s, fromBlockId, toBlockId)
                               /\ ProposerOf(s) \in validators})
    IN [j \in 1..Len(slots) |->
           [f_slot |-> slots[j], f_validator_index |-> ProposerOf(slots[j])]]

CommitteeRowsFirstOnly(slot, validators) ==
    IF SeqToSet(Committees(slot)[1]) \cap validators # {}
    THEN << [f_slot |-> slot, f_committee_index |-> 0,
             f_committee |-> Committees(slot)[1]] >>
    ELSE << >>
\* the rows one slot contributes to getAttestationDuties
CommitteeRows(slot, validators) ==
    LET cs == Committees(slot)
        all == [i \in 1..Len(cs) |->
                   [f_slot |-> slot, f_committee_index |-> i - 1,
                    f_committee |-> cs[i]]]
    IN SelectSeq(all, LAMBDA r : SeqToSet(r.f_committee) \cap validators # {})

RECURSIVE AttestationDutiesFrom(_, _, _, _)
AttestationDutiesFrom(slot, toBlockId, validators, failed) ==
    IF slot > toBlockId THEN << >>
    ELSE (IF <<"committees", slot, 0>> \in failed THEN << >>
          ELSE CommitteeRows(slot, validators))
         \o AttestationDutiesFrom(slot + 1, toBlockId, validators, failed)

getAttestationDuties(fromBlockId, toBlockId, validators, failed) ==
    AttestationDutiesFrom(fromBlockId + 1, toBlockId, validators, failed)

\* the validators of one committee whose bit is set, the committee's bits
\* starting at offset and ending before the delimiter
ElectraAttestingNoOffset(bits, d, offset, committeeValidators) ==
    LET idx == SortedSeq({i \in 0..(Len(committeeValidators) - 1) :
                             i < d /\ bits[i + 1] = 1})
    IN [j \in 1..Len(idx) |-> committeeValidators[idx[j] + 1]]
ElectraAttesting(bits, d, offset, committeeValidators) ==
    LET idx == SortedSeq({i \in 0..(Len(committeeValidators) - 1) :
                             (offset + i) < d /\ bits[offset + i + 1] = 1})
    IN [j \in 1..Len(idx) |-> committeeValidators[idx[j] + 1]]

AttRow(attestationSlot, slot, committeeIdx, indices) ==
    [f_slot |-> attestationSlot, f_inclusion_slot |-> slot,
     f_inclusion_index |-> committeeIdx, f_aggregation_indices |-> indices]

RECURSIVE ElectraWalk(_, _, _, _, _, _, _, _)
\* the loop over includedCommittees, from position k with the running offset
ElectraWalk(included, k, offset, bits, d, att, slot, validators) ==
    IF k > Len(included) THEN << >>
    ELSE LET allCommittees == Committees(att.slot)
             committeeIdx == included[k]
         IN IF committeeIdx >= Len(allCommittees)
            THEN ElectraWalk(included, k + 1, offset, bits, d, att, slot,
                             validators)
            ELSE LET cv == allCommittees[committeeIdx + 1]
                     attesting == ElectraAttesting(bits, d, offset, cv)
                     filtered == SelectSeq(attesting,
                                           LAMBDA v : v \in validators)
                 IN (IF Len(filtered) > 0
                     THEN << AttRow(att.slot, slot, committeeIdx, filtered) >>
                     ELSE << >>)
                    \o ElectraWalk(included, k + 1, offset + Len(cv), bits, d,
                                   att, slot, validators)

\* the records one attestation of the block at `slot` contributes
DecodeAttestation(att, slot, validators) ==
    LET allCommittees == Committees(att.slot)
    IN IF att.committee_bits # << >>
       THEN LET included == decodeCommitteeBits(att.committee_bits,
                                                Len(allCommittees))
                bits == BitsOf(att.aggregation_bits)
                d == delimiterPos(bits)
            IN IF d >= 0
               THEN ElectraWalk(included, 1, 0, bits, d, att, slot, validators)
               ELSE << >>
       ELSE IF att.index >= Len(allCommittees) THEN << >>
            ELSE LET filtered ==
                        SelectSeq(decodeAggregationBits(att.aggregation_bits,
                                      allCommittees[att.index + 1]),
                                  LAMBDA v : v \in validators)
                 IN IF Len(filtered) > 0
                    THEN << AttRow(att.slot, slot, att.index, filtered) >>
                    ELSE << >>

RECURSIVE BlockAttestations(_, _, _, _, _, _)
\* the loop over the attestations of the block at `slot`, from position i
BlockAttestations(slot, i, fromBlockId, toBlockId, validators, failed) ==
    LET atts == BeaconBlock(slot).attestations
    IN IF i > Len(atts) THEN << >>
       ELSE (IF \/ atts[i].slot <= fromBlockId
                \/ atts[i].slot > toBlockId
                \/ <<"attcomm", slot, i>> \in failed
             THEN << >>
             ELSE DecodeAttestation(atts[i], slot, validators))
            \o BlockAttestations(slot, i + 1, fromBlockId, toBlockId,
                                 validators, failed)

RECURSIVE ScanAttestations(_, _, _, _, _, _)
\* the loop over the slots fromBlockId+1 .. toBlockId+32
ScanAttestations(slot, scanToSlot, fromBlockId, toBlockId, validators, failed) ==
    IF slot > scanToSlot THEN << >>
    ELSE (IF HasBlock(slot) /\ <<"attblock", slot, 0>> \notin failed
          THEN BlockAttestations(slot, 1, fromBlockId, toBlockId, validators,
                                 failed)
          ELSE << >>)
         \o ScanAttestations(slot + 1, scanToSlot, fromBlockId, toBlockId,
                             validators, failed)

PushAll(existing, more) == existing \o more
RECURSIVE PushMissing(_, _)
\* push every element of `more` that `existing` does not include
PushMissing(existing, more) ==
    IF more = << >> THEN existing
    ELSE PushMissing(IF Head(more) \in SeqToSet(existing) THEN existing
                     ELSE Append(existing, Head(more)),
                     Tail(more))

RECURSIVE Deduplicate(_, _)
\* uniqueAttestations: one record per (f_slot, f_inclusion_index), in the
\* order the keys were first seen
Deduplicate(all, unique) ==
    IF all = << >> THEN unique
    ELSE LET a == Head(all)
             hit == {k \in 1..Len(unique) :
                        /\ unique[k].f_slot = a.f_slot
                        /\ unique[k].f_inclusion_index = a.f_inclusion_index}
         IN IF hit = {}
            THEN Deduplicate(Tail(all), Append(unique, a))
            ELSE LET k == SetMin(hit)
                 IN Deduplicate(Tail(all),
                        [unique EXCEPT ![k].f_aggregation_indices =
                            PushMissing(@, a.f_aggregation_indices)])

getAttestations(fromBlockId, toBlockId, validators, failed) ==
    Deduplicate(ScanAttestations(fromBlockId + 1, toBlockId + InclusionSlots,
                                 fromBlockId, toBlockId, validators, failed),
                << >>)

\* the rows the block at `slot` contributes to getBeaconWithdrawals
\* (f_amount stays in gwei: amountEth = amountGwei / 1e9 scales all alike)
WithdrawalRowsOfAll(slot, validators) ==
    [j \in 1..Len(BeaconBlock(slot).withdrawals) |->
        [f_slot |-> slot,
         f_validator_index |-> BeaconBlock(slot).withdrawals[j].validator_index,
         f_amount |-> BeaconBlock(slot).withdrawals[j].amount]]
WithdrawalRows(slot, validators) ==
    LET ws == SelectSeq(BeaconBlock(slot).withdrawals,
                        LAMBDA w : w.validator_index \in validators)
    IN [j \in 1..Len(ws) |->
           [f_slot |-> slot, f_validator_index |-> ws[j].validator_index,
            f_amount |-> ws[j].amount]]

RECURSIVE WithdrawalsFrom(_, _, _, _)
WithdrawalsFrom(slot, toBlockId, validators, failed) ==
    IF slot > toBlockId THEN << >>
    ELSE (IF HasBlock(slot) /\ <<"wblock", slot, 0>> \notin failed
          THEN WithdrawalRows(slot, validators)
          ELSE << >>)
         \o WithdrawalsFrom(slot + 1, toBlockId, validators, failed)

getBeaconWithdrawals(fromBlockId, toBlockId, validators, failed) ==
    WithdrawalsFrom(fromBlockId + 1, toBlockId, validators, failed)

\* ------------------------------------------------------------ ethNotifier
VARIABLES
    validatorIndexToLabel,  \* configuration: monitored validator -> label
    epochsBeforeFinalConfig,\* configuration: nconf 'epochsBeforeFinal'
    pc,                     \* where mainLoop stands
    lastBlock,              \* the cursor in memory
    persisted,              \* 'lastBlock' in the nconf file
    headSlot, safeSlot,     \* of the current iteration
    blocksToScan,           \* rows of getNewBlocks, filtered (their slots)
    newestBlock, numBatches, initialStartSlot, batchNum,
    proposerDuties, attestationDuties, attestations, withdrawals,
    missedAttestations, submittedAttestations, batchWithdrawals,
    events,                 \* every message handed to sendTelegramNotification
    faults, failedPolls,    \* how many requests / polls have failed so far
    batches,                \* the batches of the current iteration so far
    skipped,                \* duties and committees lost to a failed request
    classified,             \* every (validator, slot, attested | missed)
    outcome                 \* how the last iteration ended

coreVars == <<validatorIndexToLabel, epochsBeforeFinalConfig, pc,
          lastBlock, persisted, headSlot, safeSlot, blocksToScan, newestBlock,
          numBatches, initialStartSlot, batchNum, proposerDuties,
          attestationDuties, attestations, withdrawals, missedAttestations,
          submittedAttestations, batchWithdrawals, events, faults,
          failedPolls, batches, skipped, classified, outcome>>

\* --------------------------------------- the rate-limited notifications
\* Date.now() is read in milliseconds since GENESIS_TIME (the program reads it
\* since 1970 and subtracts GENESIS_TIME before it divides by the slot time).
VARIABLES
    now,                        \* Date.now()
    lastStaleNodeNotification,  \* when the last stale-node message was sent
    lastErrorNotification,      \* when the last outer-catch message was sent
    slotsBehind,                \* of the last stale check
    notifyStep,                 \* which of the notifying steps ran last
    delivered                   \* the stale and error messages sent, with times

notifyRest == <<lastStaleNodeNotification, lastErrorNotification,
                slotsBehind, notifyStep, delivered>>
notifyVars == <<now, notifyRest>>

\* 30 * 60 * 1000: 30 minutes in milliseconds
NOTIFICATION_RATE_LIMIT_INTERVAL == 30 * 60 * 1000
Minute == 60 * 1000

\* The process starts StartMinutes after genesis; both "last" timestamps
\* start at 0, long before any time the clock can show.
NotifyInit ==
    /\ now = StartMinutes * Minute
    /\ lastStaleNodeNotification = 0
    /\ lastErrorNotification = 0
    /\ slotsBehind = 0
    /\ notifyStep = "start"
    /\ delivered = << >>

\* ------------------------------------------- the cache and single flight
VARIABLES
    cache,        \* LighthouseCache: blocks and slotCommittees, each a Map
                  \* kept as its entries in insertion order
    requests,     \* blockRequests and committeeRequests: slot -> promise
    http,         \* the outbound requests the beacon node has not answered
    waiting,      \* promise -> the calls that were handed it
    returned,     \* what every finished call got, and from where
    calls,        \* how many calls have been made
    httpErrors,   \* how many requests have failed other than by a 404
    nextSweep,    \* when the cleanup timer fires next
    stats         \* this.hits and this.misses

cacheVars == <<cache, requests, http, waiting, returned, calls, httpErrors,
               nextSweep, stats>>

\* module.exports = new LighthouseCache({ maxSize, ttl, cleanupInterval })
CacheTtl == 30 * Minute
CleanupInterval == 10 * Minute

\* the slots the calls ask for: a slot with a block and a slot without
CacheSlots == {7, 8}
CommitteeSlots == {7}
CacheKinds == {"blocks", "slotCommittees"}

\* one entry of a Map of the cache
Entry(slot, data, timestamp) ==
    [slot |-> slot, data |-> data, timestamp |-> timestamp]

\* a Map that already holds maxSize - 1 entries of earlier batches, put
\* in after an entry for `slot`
FilledAfter(slot, data, timestamp) ==
    <<Entry(slot, data, timestamp)>>
    \o [k \in 1..(CacheMaxSize - 1) |-> Entry(100 + k, "value", timestamp)]

CacheInit ==
    /\ cache = [blocks |-> << >>, slotCommittees |-> << >>]
    /\ requests = [k \in CacheKinds |-> [s \in {} |-> 0]]
    /\ http = {}
    /\ waiting = [i \in {} |-> {}]
    /\ returned = {}
    /\ calls = 0
    /\ httpErrors = 0
    /\ nextSweep = StartMinutes * Minute + CleanupInterval
    /\ stats = [hits |-> [k \in CacheKinds |-> 0],
                misses |-> [k \in CacheKinds |-> 0]]

\* the variables of the other components, which mainLoop's batches leave alone
\* The asynchronous part of one batch, request by request: the committee
\* pre-fetch in chunks, then the four fetchers under Promise.all.
VARIABLES
    maxConcurrentRequests,  \* nconf 'maxConcurrentRequests'
    fetchPhase,             \* "start", "prefetch", "fetchers" or "done"
    chunkAt,                \* processInChunks: i, as a position in slotsToFetch
    inFlight,               \* the beacon-node requests sent and not yet answered
    cached,                 \* the <<kind, slot>> keys the cache holds
    fetcherAt,              \* per fetcher, the position of its next request
    fetcherAwaits,          \* per fetcher, the request it awaits, or NoRequest
    fetchErrors             \* how many requests of the batch have failed

fetchVars == <<maxConcurrentRequests, fetchPhase, chunkAt, inFlight, cached,
               fetcherAt, fetcherAwaits, fetchErrors>>

Fetchers == {"getProposerDuties", "getAttestationDuties", "getAttestations",
             "getBeaconWithdrawals"}

NoRequest == <<"none", 0>>

FetchInit ==
    /\ maxConcurrentRequests = 30
    /\ fetchPhase = "start"
    /\ chunkAt = 1
    /\ inFlight = {}
    /\ cached = {}
    /\ fetcherAt = [f \in Fetchers |-> 1]
    /\ fetcherAwaits = [f \in Fetchers |-> NoRequest]
    /\ fetchErrors = 0

\* The invocations of mainLoop and the order of what they send.
VARIABLES
    invocations,   \* one record per call of mainLoop(), in call order
    batchCount,    \* how many batches have been started since start-up
    sent,          \* the notifications in the order of the send calls
    mevLookups,    \* the batches with a beaconcha.in lookup not yet answered
    mevSettled     \* <<batch, outcome>> of the lookups that have been answered

schedVars == <<invocations, batchCount, sent, mevLookups, mevSettled>>

Invocation(at, left, exit) == [pc |-> at, left |-> left, exit |-> exit]

\* line 774: mainLoop();
SchedInit ==
    /\ invocations = << Invocation("head", 0, "none") >>
    /\ batchCount = 0
    /\ sent = << >>
    /\ mevLookups = {}
    /\ mevSettled = {}

\* A LighthouseCache built with any maxSize: one of its Maps.
VARIABLES
    maxSize,       \* this.maxSize
    entries,       \* this.blocks (or this.slotCommittees), in insertion order
    sets           \* how many set calls have been made

sizeVars == <<maxSize, entries, sets>>

\* new LighthouseCache(): options.maxSize || 10000
SizeInit == maxSize = 10000 /\ entries = << >> /\ sets = 0

\* The decoders applied to one input.
VARIABLES decoded

NotDecoded == [op |-> "none", bits |-> << >>, total |-> 0, out |-> << >>]

CodecInit == decoded = NotDecoded

\* Two processes given the same beacon responses, one started with
\* TEST_MODE=true and one without.
VARIABLES runs

Modes == {"test", "live"}

Run(emitted, sink, cursors, requested) == [emitted |-> emitted, sink |-> sink, cursors |-> cursors, requested |-> requested]

ModesInit == runs = [m \in Modes |-> Run(<< >>, << >>, << >>, 0)]

laterVars == <<sizeVars, decoded, runs>>
LaterInit == SizeInit /\ CodecInit /\ ModesInit

elsewhere == <<notifyVars, cacheVars, fetchVars, schedVars, laterVars>>
ElsewhereInit == NotifyInit /\ CacheInit /\ FetchInit /\ SchedInit /\ LaterInit

\* all_validators of the configuration file, as the reverse lookup built at
\* start-up. A label is any JSON key, so it may collide with a property every
\* plain object inherits.
LabelConfigs ==
    { (1 :> "pool") @@ (2 :> "pool"),
      (1 :> "pool") @@ (2 :> "solo"),
      (1 :> "pool") @@ (2 :> "constructor") }

validatorsToMonitor == DOMAIN validatorIndexToLabel

getValidatorLabel(validatorIndex) ==
    IF validatorIndex \in DOMAIN validatorIndexToLabel
    THEN validatorIndexToLabel[validatorIndex] ELSE "unknown"

\* const epochsBeforeFinal = nconf.get('epochsBeforeFinal') || 1
epochsBeforeFinalAsConfigured == epochsBeforeFinalConfig
epochsBeforeFinal ==
    IF epochsBeforeFinalConfig = 0 THEN 1 ELSE epochsBeforeFinalConfig

\* headEpoch, safeEpoch, safeSlot
SafeSlotNoMargin(head, margin) == (head \div 32) * 32
SafeSlotOf(head, margin) == Max(0, (head \div 32) - margin) * 32

NewestBlockIsSafeSlot(rows, safe) == safe
\* Math.min(slot of the last row, safeSlot)
NewestBlockOf(rows, safe) == Min(SetMax(rows), safe)

NumBatchesOf(totalSlots) == Ceil(totalSlots, batchSize)

BatchStartNoOffset(initial, n) == n * batchSize
BatchStartSlotOf(initial, n) == initial + (n * batchSize)

BatchEndNoMin(start, newest) == start + batchSize
BatchEndSlotOf(start, newest) == Min(start + batchSize, newest)

batchStartSlot == BatchStartSlotOf(initialStartSlot, batchNum)
batchEndSlot == BatchEndSlotOf(batchStartSlot, newestBlock)

\* "Save progress anyway": the cursor the catch block of a batch sets
CursorKeptOnError(current, batchEnd) == current
CursorAfterBatchError(current, batchEnd) == batchEnd

\* nconf.set('lastBlock', lastBlock); nconf.save(): the value in the file
SaveSkipped(file, cursor) == file
NconfSave(file, cursor) == cursor

\* Names every plain object ({}) already answers to: missedByLabel[label] and
\* withdrawalsByLabel[label] are then truthy without having been created, and
\* the .validators.push that follows throws a TypeError.
ObjectPrototypeKeys == {"constructor", "toString", "valueOf", "__proto__"}

EmptyMap == [v \in {} |-> << >>]

\* "Clear for next batch": missedAttestations = {}, batchWithdrawals = {}
KeptAfterSend(obj) == obj
KeptForNextBatch(obj) == obj
ClearedAfterSend(obj) == EmptyMap

\* obj[v].push(s), creating the array first when needed
Push(obj, v, s) ==
    IF v \in DOMAIN obj THEN [obj EXCEPT ![v] = Append(@, s)]
    ELSE obj @@ (v :> <<s>>)

Event(kind, label, vs, slots, pairs, n) ==
    [kind |-> kind, label |-> label, validators |-> vs, slots |-> slots,
     pairs |-> pairs, n |-> n, during |-> <<batchStartSlot, batchEndSlot>>]

\* the proposer loop: one notification per duty row
ProposerEvents(duties, rows) ==
    [j \in 1..Len(duties) |->
        LET v == duties[j].f_validator_index
            s == duties[j].f_slot
        IN IF s \in rows /\ BeaconBlock(s).proposer_index = v
           THEN Event("BlockProposed", getValidatorLabel(v), <<v>>, <<s>>,
                      {<<v, s>>}, BeaconBlock(s).exec_block_number)
           ELSE Event("BlockMissed", getValidatorLabel(v), <<v>>, <<s>>,
                      {<<v, s>>}, 0)]

\* attestedValidators of a slot: every index of every row for that slot
AttestedValidators(slot, rows) ==
    UNION {SeqToSet(rows[k].f_aggregation_indices) :
              k \in {k \in 1..Len(rows) : rows[k].f_slot = slot}}

RECURSIVE ClassifyValidators(_, _, _, _)
\* "Check each of our validators" for one duty row
ClassifyValidators(acc, ours, slot, attested) ==
    IF ours = << >> THEN acc
    ELSE ClassifyValidators(
            IF Head(ours) \in attested
            THEN [acc EXCEPT !.submitted = Push(@, Head(ours), slot)]
            ELSE [acc EXCEPT !.missed = Push(@, Head(ours), slot)],
            Tail(ours), slot, attested)

RECURSIVE ProcessAttestationDuties(_, _, _)
ProcessAttestationDuties(acc, duties, rows) ==
    IF duties = << >> THEN acc
    ELSE LET duty == Head(duties)
             ours == SelectSeq(duty.f_committee,
                               LAMBDA v : v \in validatorsToMonitor)
         IN ProcessAttestationDuties(
                ClassifyValidators(acc, ours, duty.f_slot,
                                   AttestedValidators(duty.f_slot, rows)),
                Tail(duties), rows)

RECURSIVE ProcessWithdrawals(_, _)
ProcessWithdrawals(acc, rows) ==
    IF rows = << >> THEN acc
    ELSE LET w == Head(rows)
             v == w.f_validator_index
             entry == [amount |-> w.f_amount, slot |-> w.f_slot]
             old == IF v \in DOMAIN acc THEN acc[v]
                    ELSE [label |-> getValidatorLabel(v),
                          withdrawals |-> << >>, total |-> 0]
             new == [old EXCEPT !.withdrawals = Append(@, entry),
                                !.total = @ + w.f_amount]
         IN ProcessWithdrawals(
                IF v \in DOMAIN acc THEN [acc EXCEPT ![v] = new]
                ELSE acc @@ (v :> new),
                Tail(rows))

\* the labels of the keys of obj, in the order a for-in over its integer keys
\* first meets them
RECURSIVE FirstSeen(_, _)
FirstSeen(labels, seen) ==
    IF labels = << >> THEN seen
    ELSE FirstSeen(Tail(labels),
                   IF Head(labels) \in SeqToSet(seen) THEN seen
                   ELSE Append(seen, Head(labels)))

LabelsOf(obj) ==
    LET keys == SortedSeq(DOMAIN obj)
    IN FirstSeen([j \in 1..Len(keys) |-> getValidatorLabel(keys[j])], << >>)

\* building missedByLabel / withdrawalsByLabel throws
ByLabelThrows(obj) ==
    \E v \in DOMAIN obj : getValidatorLabel(v) \in ObjectPrototypeKeys

RECURSIVE Concat(_)
Concat(qs) == IF qs = << >> THEN << >> ELSE Head(qs) \o Concat(Tail(qs))

\* one AttestationMissed notification per label
MissedEvents(missed) ==
    LET labels == LabelsOf(missed)
    IN [j \in 1..Len(labels) |->
          LET vs == SortedSeq({v \in DOMAIN missed :
                                  getValidatorLabel(v) = labels[j]})
              all == Concat([k \in 1..Len(vs) |-> missed[vs[k]]])
          IN Event("AttestationMissed", labels[j], vs,
                   SortedSeq(SeqToSet(all)),
                   {<<v, s>> \in SeqToSet(vs) \X SeqToSet(all) :
                       s \in SeqToSet(missed[v])},
                   Len(all))]

\* one WithdrawalsBatched notification per label
WithdrawalEvents(bw) ==
    LET labels == FirstSeen([j \in 1..Len(SortedSeq(DOMAIN bw)) |->
                                bw[SortedSeq(DOMAIN bw)[j]].label], << >>)
    IN [j \in 1..Len(labels) |->
          LET vs == SortedSeq({v \in DOMAIN bw : bw[v].label = labels[j]})
              all == Concat([k \in 1..Len(vs) |->
                               [i \in 1..Len(bw[vs[k]].withdrawals) |->
                                   bw[vs[k]].withdrawals[i].slot]])
          IN Event("WithdrawalsBatched", labels[j], vs, all,
                   {<<v, s>> \in SeqToSet(vs) \X SeqToSet(all) :
                       \E i \in 1..Len(bw[v].withdrawals) :
                           bw[v].withdrawals[i].slot = s},
                   SeqSum([k \in 1..Len(vs) |-> bw[vs[k]].total]))]

\* The synchronous part of a batch (lines 505-732): what it sends, what it
\* leaves in the accumulators, and whether it ends in the catch block.
Reconciled ==
    LET proposed == ProposerEvents(proposerDuties, blocksToScan)
        acc == ProcessAttestationDuties(
                   [missed |-> missedAttestations,
                    submitted |-> submittedAttestations],
                   attestationDuties, attestations)
        bw == ProcessWithdrawals(batchWithdrawals, withdrawals)
        base == [sent |-> proposed, missed |-> acc.missed,
                 submitted |-> acc.submitted, bw |-> bw, threw |-> FALSE]
        afterMissed ==
            IF DOMAIN acc.missed = {} THEN base
            ELSE IF ByLabelThrows(acc.missed)
                 THEN [base EXCEPT !.threw = TRUE]
                 ELSE [base EXCEPT !.sent = @ \o MissedEvents(acc.missed),
                                   !.missed = ClearedAfterSend(acc.missed)]
    IN IF afterMissed.threw \/ DOMAIN bw = {} THEN afterMissed
       ELSE IF ByLabelThrows(bw)
            THEN [afterMissed EXCEPT !.threw = TRUE]
            ELSE [afterMissed EXCEPT !.sent = @ \o WithdrawalEvents(bw),
                                     !.bw = ClearedAfterSend(bw)]

\* ------------------------------------------------- the failing requests
\* Only requests whose failure changes a row are enumerated: a failed request
\* for a slot that carries nothing for a monitored validator leaves every
\* result as it is.
BlockFaults(fromBlockId, safe) ==
    LET rows == getNewBlocks(fromBlockId, safe, {})
    IN {<<"block", s, 0>> : s \in {s \in rows :
            ProposerOf(s) \in Monitored \/ s = SetMax(rows)}}

InBatchRange(s, start, end) == s > start /\ s <= end

BatchFaults(start, end) ==
    {<<"duties", e, 0>> : e \in {e \in getEpochRange(start, end) :
        \E s \in EpochSlots(e) :
            InBatchRange(s, start, end) /\ ProposerOf(s) \in Monitored}}
    \cup {<<"committees", s, 0>> : s \in {s \in (start + 1)..end :
        CommitteeRows(s, Monitored) # << >>}}
    \cup {<<"attblock", b, 0>> : b \in {b \in (start + 1)..(end + InclusionSlots) :
        /\ HasBlock(b)
        /\ \E i \in 1..Len(AttestationsOf(b)) :
               InBatchRange(AttestationsOf(b)[i].slot, start, end)}}
    \cup {<<"attcomm", f[1], f[2]>> : f \in
            {f \in ((start + 1)..(end + InclusionSlots)) \X (1..2) :
                /\ HasBlock(f[1])
                /\ f[2] <= Len(AttestationsOf(f[1]))
                /\ InBatchRange(AttestationsOf(f[1])[f[2]].slot, start, end)}}
    \cup {<<"wblock", s, 0>> : s \in {s \in (start + 1)..end :
        HasBlock(s) /\ WithdrawalRows(s, Monitored) # << >>}}

FaultSets(candidates) ==
    {F \in SUBSET candidates : faults + Cardinality(F) <= MaxFaults}

\* the heads a poll may observe: every epoch start, and MaxHead
HeadValues == {h \in 0..MaxHead : h % SLOTS_PER_EPOCH = 0 \/ h = MaxHead}

NoBatch == <<-1, -1>>

\* the (validator, slot) entries `new` holds beyond those of `old`
Added(new, old) ==
    {<<v, new[v][i]>> : <<v, i>> \in
        {vi \in (DOMAIN new) \X (1..(batchSize + 1)) :
            /\ vi[2] <= Len(new[vi[1]])
            /\ vi[2] > (IF vi[1] \in DOMAIN old THEN Len(old[vi[1]]) ELSE 0)}}

\* ----------------------------------------------------------------- actions
Init ==
    /\ validatorIndexToLabel \in LabelConfigs
    /\ epochsBeforeFinalConfig \in 0..MaxEpochsBeforeFinal
    /\ pc = "sleep"
    /\ lastBlock = CursorInitial
    /\ persisted = CursorInitial
    /\ headSlot = 0 /\ safeSlot = 0
    /\ blocksToScan = {}
    /\ newestBlock = 0 /\ numBatches = 0 /\ initialStartSlot = 0 /\ batchNum = 0
    /\ proposerDuties = << >> /\ attestationDuties = << >>
    /\ attestations = << >> /\ withdrawals = << >>
    /\ missedAttestations = EmptyMap
    /\ submittedAttestations = EmptyMap
    /\ batchWithdrawals = EmptyMap
    /\ events = << >>
    /\ faults = 0 /\ failedPolls = 0
    /\ batches = << >>
    /\ skipped = {}
    /\ classified = {}
    /\ outcome = "none"
    /\ ElsewhereInit

config == <<validatorIndexToLabel, epochsBeforeFinalConfig>>
batchRows == <<proposerDuties, attestationDuties, attestations, withdrawals>>
accumulators == <<missedAttestations, submittedAttestations, batchWithdrawals>>
iteration == <<blocksToScan, newestBlock, numBatches, initialStartSlot, batchNum>>

\* mainLoop is entered: fresh accumulators, the head request succeeds.
MainLoopHead ==
    /\ pc = "sleep"
    /\ \E h \in HeadValues :
          /\ h >= headSlot   \* the head of the chain never moves back
          /\ headSlot' = h
          /\ safeSlot' = SafeSlotOf(h, epochsBeforeFinal)
    /\ missedAttestations' = EmptyMap
    /\ submittedAttestations' = EmptyMap
    /\ batchWithdrawals' = EmptyMap
    /\ pc' = "scan"
    /\ UNCHANGED <<config, lastBlock, persisted, iteration, batchRows, events,
                   faults, failedPolls, batches, skipped, classified, outcome>>
    /\ UNCHANGED elsewhere

\* lines 770-771 after the outer catch: await sleep(...); mainLoop();
AfterHeadFailsNoRestart == "stopped"
AfterHeadFails == "sleep"

\* mainLoop is entered and the head request fails: the outer catch sends the
\* rate-limited error notification, then mainLoop sleeps and calls itself.
MainLoopHeadFails ==
    /\ pc = "sleep"
    /\ failedPolls < MaxFailedPolls
    /\ failedPolls' = failedPolls + 1
    /\ missedAttestations' = EmptyMap
    /\ submittedAttestations' = EmptyMap
    /\ batchWithdrawals' = EmptyMap
    /\ \E limited \in (IF \E i \in 1..Len(events) :
                            events[i].kind = "InternalError"
                            /\ events[i].label = "loop"
                       THEN BOOLEAN ELSE {FALSE}) :
          events' = IF limited THEN events
                    ELSE Append(events,
                           [kind |-> "InternalError", label |-> "loop",
                            validators |-> << >>, slots |-> << >>,
                            pairs |-> {}, n |-> 0, during |-> NoBatch])
    /\ outcome' = "failed"
    /\ pc' = AfterHeadFails
    /\ UNCHANGED <<config, lastBlock, persisted, headSlot,
                   safeSlot, iteration, batchRows, faults, batches, skipped,
                   classified>>
    /\ UNCHANGED elsewhere

\* blocksToScan after the filter, for one choice of failing block requests
ScannedBlocks(failed) ==
    {s \in getNewBlocks(lastBlock, headSlot, failed) : s <= safeSlot}

\* the idle exit: await sleep(pollingInterval * 1000); mainLoop(); return
AfterIdleNoRestart == "stopped"
AfterIdle == "sleep"

\* getNewBlocks returns nothing at or below the safe slot (or its own head
\* request fails and it returns no row): sleep and poll again.
PollIdle ==
    /\ pc = "scan"
    /\ \E F \in FaultSets(BlockFaults(lastBlock, safeSlot)) :
          /\ \/ ScannedBlocks(F) = {}
             \/ F = {}      \* the head request inside getNewBlocks failed
          /\ faults' = faults + Cardinality(F)
    /\ pc' = AfterIdle
    /\ outcome' = "idle"
    /\ UNCHANGED <<config, lastBlock, persisted, headSlot,
                   safeSlot, iteration, batchRows, accumulators, events,
                   failedPolls, batches, skipped, classified>>
    /\ UNCHANGED elsewhere

\* getNewBlocks returns rows: the range is cut into batches.
PollWork ==
    /\ pc = "scan"
    /\ \E F \in FaultSets(BlockFaults(lastBlock, safeSlot)) :
          /\ ScannedBlocks(F) # {}
          /\ faults' = faults + Cardinality(F)
          /\ blocksToScan' = ScannedBlocks(F)
          /\ newestBlock' = NewestBlockOf(ScannedBlocks(F), safeSlot)
    /\ numBatches' = NumBatchesOf(newestBlock' - lastBlock)
    /\ initialStartSlot' = lastBlock
    /\ batchNum' = 0
    /\ batches' = << >>
    /\ pc' = "fetch"
    /\ outcome' = "working"
    /\ UNCHANGED <<config, lastBlock, persisted, headSlot,
                   safeSlot, batchRows, accumulators, events, failedPolls,
                   skipped, classified>>
    /\ UNCHANGED elsewhere

\* The asynchronous part of a batch: the committee pre-fetch, then
\* getProposerDuties, getAttestationDuties, getAttestations and
\* getBeaconWithdrawals, with the requests in F failing.
BatchFetch ==
    /\ pc = "fetch"
    /\ \E F \in FaultSets(BatchFaults(batchStartSlot, batchEndSlot)) :
          /\ faults' = faults + Cardinality(F)
          /\ proposerDuties' = getProposerDuties(batchStartSlot, batchEndSlot,
                                                 validatorsToMonitor, F)
          /\ attestationDuties' = getAttestationDuties(batchStartSlot,
                                      batchEndSlot, validatorsToMonitor, F)
          /\ attestations' = getAttestations(batchStartSlot, batchEndSlot,
                                             validatorsToMonitor, F)
          /\ withdrawals' = getBeaconWithdrawals(batchStartSlot, batchEndSlot,
                                                 validatorsToMonitor, F)
          /\ skipped' = skipped
                \cup {<<"duty", s>> : s \in {s \in (batchStartSlot + 1)..batchEndSlot :
                        <<"duties", slotToEpoch(s), 0>> \in F}}
                \cup {<<"committee", s>> : s \in {s \in (batchStartSlot + 1)..batchEndSlot :
                        <<"committees", s, 0>> \in F}}
                \cup {<<"wblock", s>> : s \in {s \in (batchStartSlot + 1)..batchEndSlot :
                        <<"wblock", s, 0>> \in F}}
    /\ pc' = "reconcile"
    /\ UNCHANGED <<config, lastBlock, persisted, headSlot,
                   safeSlot, iteration, accumulators, events, failedPolls,
                   batches, classified, outcome>>
    /\ UNCHANGED elsewhere

\* what both ends of a batch share: the accumulators, the log, the loop
AfterBatch(r, threw) ==
    /\ missedAttestations' = r.missed
    /\ submittedAttestations' = r.submitted
    /\ batchWithdrawals' = r.bw
    /\ classified' = classified
          \cup {<<p[1], p[2], "attested">> :
                   p \in Added(r.submitted, submittedAttestations)}
          \cup {<<p[1], p[2], "missed">> :
                   p \in Added(ProcessAttestationDuties(
                                  [missed |-> missedAttestations,
                                   submitted |-> submittedAttestations],
                                  attestationDuties, attestations).missed,
                               missedAttestations)}
    /\ batches' = Append(batches, [start |-> batchStartSlot,
                                   end |-> batchEndSlot, threw |-> threw])
    /\ IF batchNum + 1 < numBatches
       THEN pc' = "fetch" /\ batchNum' = batchNum + 1 /\ outcome' = outcome
       ELSE pc' = "sleep" /\ batchNum' = batchNum /\ outcome' = "complete"
    /\ UNCHANGED <<config, headSlot, safeSlot, blocksToScan,
                   newestBlock, numBatches, initialStartSlot, batchRows,
                   faults, failedPolls, skipped>>
    /\ UNCHANGED elsewhere

\* The synchronous part of a batch runs to its end: notifications, then
\* "Update progress".
ProcessBatch ==
    /\ pc = "reconcile"
    /\ ~Reconciled.threw
    /\ events' = events \o Reconciled.sent
    /\ lastBlock' = batchEndSlot
    /\ persisted' = NconfSave(persisted, lastBlock')
    /\ AfterBatch(Reconciled, FALSE)

\* The synchronous part of a batch throws: the catch block sends the error
\* notification and saves the progress anyway.
ProcessBatchThrows ==
    /\ pc = "reconcile"
    /\ Reconciled.threw
    /\ events' = Append(events \o Reconciled.sent,
                        Event("InternalError", "batch", << >>, << >>, {},
                              batchNum + 1))
    /\ lastBlock' = CursorAfterBatchError(lastBlock, batchEndSlot)
    /\ persisted' = NconfSave(persisted, lastBlock')
    /\ AfterBatch(Reconciled, TRUE)

Next ==
    \/ MainLoopHead
    \/ MainLoopHeadFails
    \/ PollIdle
    \/ PollWork
    \/ BatchFetch
    \/ ProcessBatch
    \/ ProcessBatchThrows

vars == <<coreVars, elsewhere>>

Spec == Init /\ [][Next]_vars

\* the steps that end an await of mainLoop: the head request returns (line
\* 408), the block scan returns (line 434), the fetches of a batch return
\* (line 497), the batch is processed up to the next batch or the sleep
LeavesAwait ==
    \/ pc = "sleep" /\ pc' = "scan"
    \/ pc = "scan" /\ pc' \in {"fetch", "sleep"}
    \/ pc = "fetch" /\ pc' = "reconcile"
    \/ pc = "reconcile" /\ pc' \in {"fetch", "sleep"}

\* Every request returns and every sleep ends, so mainLoop does not wait at
\* one await for ever: weak fairness of the steps that move the loop on.
FairSteps == WF_pc(LeavesAwait)

\* one configuration: epochsBeforeFinal 0 or unset, and a label that makes a
\* batch throw
InitLive ==
    /\ Init
    /\ validatorIndexToLabel = (1 :> "pool") @@ (2 :> "constructor")
    /\ epochsBeforeFinalConfig = 0

SpecLive == InitLive /\ [][Next]_vars /\ FairSteps

\* ------------------------------- the stale-node and error notifications
\* expectedCurrentSlot of the stale check
ExpectedCurrentSlot(t) == (t \div 1000) \div SECONDS_PER_SLOT

\* "If head is more than 10 slots (2 minutes) behind"
IsStaleFromTen(behind) == behind >= 10
IsStale(behind) == behind > 10

\* now - last >= NOTIFICATION_RATE_LIMIT_INTERVAL
RateLimitElapsed(t, last) == t - last >= NOTIFICATION_RATE_LIMIT_INTERVAL

Delivery(kind, n) == [kind |-> kind, at |-> now, n |-> n]

\* how far behind the expected slot the head of a poll may be
Lags == {0, 10, 11, 20}

\* what the notifying steps leave alone
besidesNotify == <<coreVars, cacheVars, fetchVars, schedVars, laterVars>>

\* time passes between two steps (sleep, awaited requests)
ClockAdvances ==
    /\ \E d \in {5, 25} :
          /\ now + d * Minute <= (StartMinutes + MaxElapsedMinutes) * Minute
          /\ now' = now + d * Minute
    /\ notifyStep' = "clock"
    /\ UNCHANGED <<lastStaleNodeNotification, lastErrorNotification,
                   slotsBehind, delivered, besidesNotify>>

\* the stale check of an iteration whose head request succeeded
StaleCheck ==
    /\ Len(delivered) < MaxDelivered
    /\ \E lag \in Lags :
          LET head == ExpectedCurrentSlot(now) - lag
              behind == ExpectedCurrentSlot(now) - head
          IN /\ slotsBehind' = behind
             /\ IF IsStale(behind)
                   /\ RateLimitElapsed(now, lastStaleNodeNotification)
                THEN /\ delivered' = Append(delivered,
                                            Delivery("NodeStale", behind))
                     /\ lastStaleNodeNotification' = now
                ELSE UNCHANGED <<delivered, lastStaleNodeNotification>>
    /\ notifyStep' = "stale"
    /\ UNCHANGED <<now, lastErrorNotification, besidesNotify>>

\* the catch block of a batch: the error message is sent as it is
BatchCatch ==
    /\ Len(delivered) < MaxDelivered
    /\ delivered' = Append(delivered, Delivery("InternalError", 0))
    /\ notifyStep' = "batch"
    /\ UNCHANGED <<now, lastStaleNodeNotification, lastErrorNotification,
                   slotsBehind, besidesNotify>>

\* the catch block of mainLoop: "Rate-limit error notifications"
OuterCatch ==
    /\ Len(delivered) < MaxDelivered
    /\ IF RateLimitElapsed(now, lastErrorNotification)
       THEN /\ delivered' = Append(delivered, Delivery("InternalError", 0))
            /\ lastErrorNotification' = now
       ELSE UNCHANGED <<delivered, lastErrorNotification>>
    /\ notifyStep' = "outer"
    /\ UNCHANGED <<now, lastStaleNodeNotification, slotsBehind, besidesNotify>>

NotifyNext ==
    \/ ClockAdvances
    \/ StaleCheck
    \/ BatchCatch
    \/ OuterCatch

\* one configuration of the core, which stays as it starts
InitOneConfig ==
    /\ Init
    /\ validatorIndexToLabel = (1 :> "pool") @@ (2 :> "pool")
    /\ epochsBeforeFinalConfig = 1

SpecNotify == InitOneConfig /\ [][NotifyNext]_vars

\* ------------------------------------------------------- LighthouseCache
\* Map.has
HasNever(map, slot) == FALSE
Has(map, slot) == \E i \in 1..Len(map) : map[i].slot = slot

Lookup(map, slot) == map[CHOOSE i \in 1..Len(map) : map[i].slot = slot]

\* entry && (Date.now() - entry.timestamp < this.ttl)
Fresh(entry, t) == t - entry.timestamp < CacheTtl

\* getBlock / getSlotCommittees: the data of a fresh entry, else null
\* ("none" is null: what a block tombstone holds and what a miss returns)
Get(map, slot, t) ==
    IF Has(map, slot) /\ Fresh(Lookup(map, slot), t)
    THEN Lookup(map, slot).data ELSE "none"

\* _enforceSize: at maxSize or more, the oldest 10% of maxSize are deleted
EnforceSizeNewest(map, size) ==
    IF Len(map) >= size
    THEN SubSeq(map, 1, Len(map) - (size \div 10))
    ELSE map
EnforceSizeOf(map, size) ==
    IF Len(map) >= size
    THEN SubSeq(map, (size \div 10) + 1, Len(map))
    ELSE map

EnforceSize(map) == EnforceSizeOf(map, CacheMaxSize)

\* Map.set: a new key goes last, a known key keeps its place
MapSet(map, entry) ==
    IF Has(map, entry.slot)
    THEN [i \in 1..Len(map) |->
             IF map[i].slot = entry.slot THEN entry ELSE map[i]]
    ELSE Append(map, entry)

\* setBlock / setSlotCommittees
Set(map, slot, data, t) == MapSet(EnforceSize(map), Entry(slot, data, t))

\* _cleanupExpired, for one Map
CleanupExpiredOlderOnly(map, t) ==
    SelectSeq(map, LAMBDA e : ~(t - e.timestamp > CacheTtl))
CleanupExpired(map, t) ==
    SelectSeq(map, LAMBDA e : ~(t - e.timestamp >= CacheTtl))

\* -------------------------------- getCachedBlock / getCachedCommittees
\* blockRequests.has(slot) / committeeRequests.has(slot)
InFlightUnseen(reqs, slot) == FALSE
InFlight(reqs, slot) == slot \in DOMAIN reqs

\* Map.set and Map.delete on the in-flight trackers
Tracked(reqs, slot, promise) ==
    [s \in DOMAIN reqs \cup {slot} |-> IF s = slot THEN promise ELSE reqs[s]]
TrackerKept(reqs, slot) == reqs
Untracked(reqs, slot) == [s \in DOMAIN reqs \ {slot} |-> reqs[s]]

Return(call, kind, slot, result, via) ==
    [call |-> call, kind |-> kind, slot |-> slot, result |-> result, via |-> via]

\* getBlock / getSlotCommittees count a hit for a fresh entry and a miss
\* otherwise
Counted(st, kind, hit) ==
    IF hit THEN [st EXCEPT !.hits[kind] = @ + 1]
    ELSE [st EXCEPT !.misses[kind] = @ + 1]

\* what the cache steps leave alone
besidesCache == <<coreVars, notifyRest, fetchVars, schedVars, laterVars>>

\* One call, up to its first await: a cache entry answers it at once, an
\* in-flight promise is handed to it, or it sends the request and tracks it.
CachedCall(kind, slot) ==
    /\ calls < MaxCalls
    /\ calls' = calls + 1
    /\ IF Has(cache[kind], slot)
       THEN /\ returned' = returned \cup
                   {Return(calls', kind, slot, Get(cache[kind], slot, now), 0)}
            /\ stats' = Counted(stats, kind, Fresh(Lookup(cache[kind], slot), now))
            /\ UNCHANGED <<requests, http, waiting>>
       ELSE IF InFlight(requests[kind], slot)
       THEN /\ waiting' = [waiting EXCEPT ![requests[kind][slot]] =
                                             @ \cup {calls'}]
            /\ UNCHANGED <<requests, http, returned, stats>>
       ELSE /\ http' = http \cup {[kind |-> kind, slot |-> slot, id |-> calls']}
            /\ requests' = [requests EXCEPT ![kind] = Tracked(@, slot, calls')]
            /\ waiting' = waiting @@ (calls' :> {calls'})
            /\ stats' = Counted(stats, kind, FALSE)
            /\ UNCHANGED returned
    /\ UNCHANGED <<cache, httpErrors, nextSweep, now, besidesCache>>

getCachedBlock == \E slot \in CacheSlots : CachedCall("blocks", slot)

getCachedCommittees == \E slot \in CommitteeSlots : CachedCall("slotCommittees", slot)

\* what the beacon node may answer: the block or a 404 for a block request,
\* the committees for a committees request, or a failure of any other kind
Answers(kind, slot) ==
    (IF kind = "blocks" /\ ~HasBlock(slot) THEN {"none"} ELSE {"value"})
    \cup (IF httpErrors < MaxFaults THEN {"error"} ELSE {})

\* The request r is answered: the rest of the fetch promise runs (cache
\* set, or 404 tombstone, or throw; finally the tracker entry is deleted)
\* and every call holding the promise gets its outcome.
Answered(r) ==
    \E answer \in Answers(r.kind, r.slot) :
        /\ http' = http \ {r}
        /\ cache' = IF answer = "error" THEN cache
                    ELSE [cache EXCEPT ![r.kind] = Set(@, r.slot, answer, now)]
        /\ httpErrors' = httpErrors + (IF answer = "error" THEN 1 ELSE 0)
        /\ requests' = [requests EXCEPT ![r.kind] = Untracked(@, r.slot)]
        /\ returned' = returned \cup
               {Return(c, r.kind, r.slot, answer, r.id) : c \in waiting[r.id]}
        /\ waiting' = [i \in DOMAIN waiting \ {r.id} |-> waiting[i]]
        /\ UNCHANGED <<calls, nextSweep, stats, now, besidesCache>>

BlockResponse == \E r \in http : r.kind = "blocks" /\ Answered(r)

CommitteesResponse == \E r \in http : r.kind = "slotCommittees" /\ Answered(r)

\* Earlier batches have filled a Map up to maxSize - 1 entries after an
\* entry for one of the slots the calls ask for.
EarlierBatchesCached ==
    /\ calls = 0 /\ now = StartMinutes * Minute
    /\ cache = [blocks |-> << >>, slotCommittees |-> << >>]
    /\ cache' \in
          { [blocks |-> FilledAfter(7, "value", now), slotCommittees |-> << >>],
            [blocks |-> FilledAfter(8, "none", now),
             slotCommittees |-> FilledAfter(7, "value", now)] }
    /\ UNCHANGED <<requests, http, waiting, returned, calls, httpErrors,
                   nextSweep, stats, now, besidesCache>>

\* time passes, up to the moment the cleanup timer is due, while a call can
\* still be made or answered
CacheClockAdvances ==
    /\ now < nextSweep
    /\ calls < MaxCalls \/ http # {}
    /\ now + 5 * Minute <= (StartMinutes + MaxElapsedMinutes) * Minute
    /\ now' = now + 5 * Minute
    /\ UNCHANGED <<cache, requests, http, waiting, returned, calls,
                   httpErrors, nextSweep, stats, besidesCache>>

\* setInterval(() => this._cleanupExpired(), cleanupInterval)
CleanupTimer ==
    /\ now = nextSweep
    /\ cache' = [k \in CacheKinds |-> CleanupExpired(cache[k], now)]
    /\ nextSweep' = nextSweep + CleanupInterval
    /\ UNCHANGED <<requests, http, waiting, returned, calls, httpErrors,
                   stats, now, besidesCache>>

CacheNext ==
    \/ getCachedBlock
    \/ getCachedCommittees
    \/ BlockResponse
    \/ CommitteesResponse
    \/ EarlierBatchesCached
    \/ CacheClockAdvances
    \/ CleanupTimer

SpecCache == InitOneConfig /\ [][CacheNext]_vars

\* ------------------------------------------------------------- properties
DutyKinds == {"BlockProposed", "BlockMissed", "AttestationMissed",
              "WithdrawalsBatched"}

\* the events of `kind` that concern validator v at slot s
EventsFor(kinds, v, s) ==
    {i \in 1..Len(events) : events[i].kind \in kinds /\ <<v, s>> \in events[i].pairs}

\* the slots at or below the cursor that some batch of the run has covered
ProcessedSlots == (CursorInitial + 1)..lastBlock

\* an iteration has just finished all its batches
IterationComplete == pc = "sleep" /\ outcome = "complete"

\* C1: every step of the scheduler (successful batch, batch that threw, idle
\* poll, failed poll) leaves the cursor in memory and the cursor in the nconf
\* file at least as large as they were: the cursor never regresses.
C1_CursorNeverRegresses ==
    [][persisted' >= persisted /\ lastBlock' >= lastBlock]_vars

\* a run in which the cursor has been written after a batch that threw, a
\* poll has failed on the head request, and the last poll was idle
C1_Witness ==
    /\ persisted > CursorInitial
    /\ \E i \in 1..Len(batches) : batches[i].threw
    /\ \E i \in 1..Len(batches) : ~batches[i].threw
    /\ failedPolls > 0
    /\ outcome = "idle"

\* C2 as the specification states it: every proposer duty of a monitored
\* validator at a processed slot has exactly one BlockProposed or BlockMissed
\* notification, whatever requests of its batch failed.
C2_ExactlyOneWhateverFails ==
    \A s \in ProcessedSlots :
        ProposerOf(s) \in validatorsToMonitor
        => Cardinality(EventsFor({"BlockProposed", "BlockMissed"},
                                 ProposerOf(s), s)) = 1

\* C2: a proposer duty of a monitored validator at a processed slot never
\* has more than one BlockProposed or BlockMissed notification, and it has
\* exactly one when the proposer-duties request for the slot's epoch succeeded
\* in the batch that covered the slot; when that request failed the epoch is
\* skipped and the duty has no notification.
C2_ExactlyOneUnlessEpochSkipped ==
    \A s \in ProcessedSlots :
        ProposerOf(s) \in validatorsToMonitor
        => LET n == Cardinality(EventsFor({"BlockProposed", "BlockMissed"},
                                          ProposerOf(s), s))
           IN IF <<"duty", s>> \in skipped THEN n = 0 ELSE n = 1

\* a processed duty whose block exists and one whose block is missing have
\* their notification, and a third one lost its epoch to a failed request
C2_Witness ==
    /\ \E i \in 1..Len(events) : events[i].kind = "BlockProposed"
    /\ \E i \in 1..Len(events) : events[i].kind = "BlockMissed"
    /\ \E s \in ProcessedSlots :
          ProposerOf(s) \in validatorsToMonitor /\ <<"duty", s>> \in skipped

\* the monitored validators the committees of slot s hold
CommitteeMembers(s) ==
    {v \in validatorsToMonitor :
        \E c \in 1..Len(Committees(s)) : v \in SeqToSet(Committees(s)[c])}

\* how many classifications (v, s) has received
Classifications(v, s) ==
    Cardinality({k \in {"attested", "missed"} : <<v, s, k>> \in classified})

\* the AttestationMissed notifications of the batch covering s that name (v, s)
MissedEventsInBatch(v, s) ==
    {i \in EventsFor({"AttestationMissed"}, v, s) :
        events[i].during[1] < s /\ s <= events[i].during[2]}

\* the batch covering slot s ended in the catch block
BatchErrorCovering(s) ==
    \E i \in 1..Len(events) :
        /\ events[i].kind = "InternalError" /\ events[i].label = "batch"
        /\ events[i].during[1] < s /\ s <= events[i].during[2]

\* C3 as the specification states it: every monitored member of a committee
\* of a processed slot is classified exactly once, and every missed
\* classification is in an AttestationMissed notification of its batch.
C3_ClassifiedAndNotifiedAlways ==
    /\ \A s \in ProcessedSlots : \A v \in CommitteeMembers(s) :
          Classifications(v, s) = 1
    /\ \A c \in classified :
          c[3] = "missed" => MissedEventsInBatch(c[1], c[2]) # {}

\* C3: every monitored member of a committee of a processed slot is
\* classified exactly once as attested or missed, unless the committees
\* request of that slot failed in its batch (the slot is skipped: no
\* classification); and every missed classification is in an AttestationMissed
\* notification of its batch unless that batch ended in an exception before
\* the notification was sent.
C3_ClassifiedUnlessSlotSkipped ==
    /\ \A s \in ProcessedSlots : \A v \in CommitteeMembers(s) :
          Classifications(v, s) = (IF <<"committee", s>> \in skipped THEN 0 ELSE 1)
    /\ \A c \in classified :
          c[3] = "missed" =>
              \/ MissedEventsInBatch(c[1], c[2]) # {}
              \/ BatchErrorCovering(c[2])

\* both classifications have been made, a missed one has been notified, and
\* the committees of a processed slot with a monitored member were skipped
C3_Witness ==
    /\ \E c \in classified : c[3] = "attested"
    /\ \E c \in classified :
          c[3] = "missed" /\ MissedEventsInBatch(c[1], c[2]) # {}
    /\ \E s \in ProcessedSlots :
          CommitteeMembers(s) # {} /\ <<"committee", s>> \in skipped

\* C4: over the whole run no two notifications of the same duty kind name
\* the same (validator, slot): for every (kind, validator, slot) at most one
\* event is emitted, across batches and across iterations.
C4_AtMostOneEventPerTriple ==
    \A i \in 1..Len(events) : \A j \in 1..Len(events) :
        (i < j /\ events[i].kind \in DutyKinds /\ events[i].kind = events[j].kind)
        => events[i].pairs \cap events[j].pairs = {}

\* two notifications of one kind for the same validator, sent by batches of
\* two different iterations
C4_Witness ==
    \E i \in 1..Len(events) : \E j \in 1..Len(events) :
        /\ i < j
        /\ events[i].kind \in DutyKinds /\ events[i].kind = events[j].kind
        /\ SeqToSet(events[i].validators) \cap SeqToSet(events[j].validators) # {}
        /\ events[i].during[2] <= initialStartSlot
        /\ events[j].during[1] >= initialStartSlot

\* the positions of the messages a step appends to the log
NewEvents == (Len(events) + 1)..Len(events')

\* C5: every duty notification a step sends (BlockProposed, BlockMissed,
\* AttestationMissed, WithdrawalsBatched) names only slots strictly greater
\* than the cursor the nconf file holds when the step begins, i.e. at the
\* moment of emission.
C5_EventsOnlyAfterPersistedCursor ==
    [][\A i \in NewEvents :
          events'[i].kind \in DutyKinds
          => \A s \in SeqToSet(events'[i].slots) : s > persisted]_vars

\* a duty notification has been sent by a batch that started from a cursor
\* saved by an earlier batch, for a slot right after that cursor's batch
C5_Witness ==
    \E i \in 1..Len(events) :
        /\ events[i].kind \in DutyKinds
        /\ events[i].during[1] > CursorInitial
        /\ events[i].slots # << >>
        /\ persisted >= events[i].during[2]

\* C6: when a batch begins (its requests are about to be made, or its rows
\* are about to be reconciled) the cursor in memory and the cursor in the
\* nconf file both equal the batch's start, which is the end of the last
\* finished batch; and after any batch of the iteration has finished, the
\* nconf file holds that batch's end.
C6_CursorPersistedBeforeNextBatch ==
    /\ pc \in {"fetch", "reconcile"}
       => /\ lastBlock = batchStartSlot
          /\ persisted = batchStartSlot
    /\ batches # << >>
       => /\ persisted = batches[Len(batches)].end
          /\ lastBlock = batches[Len(batches)].end

\* a batch is about to make its requests right after a batch that completed
\* successfully and sent notifications
C6_Witness ==
    /\ pc = "fetch"
    /\ batches # << >>
    /\ ~batches[Len(batches)].threw
    /\ persisted = batches[Len(batches)].end
    /\ \E i \in 1..Len(events) :
          events[i].during = <<batches[Len(batches)].start,
                               batches[Len(batches)].end>>

\* C7 as the specification states it: once all batches of an iteration have
\* finished, the cursor equals the safe slot computed at the start of that
\* iteration, also when the last slots up to the safe slot have no block.
C7_CursorReachesSafeSlot ==
    IterationComplete => lastBlock = safeSlot

\* C7: the processing target of an iteration is the slot of the newest block
\* getNewBlocks returned at or below the safe slot, not the safe slot itself.
\* Once all batches have finished the cursor equals that slot; it equals the
\* safe slot exactly when the block of the safe slot was returned, and stays
\* below it when the last slots up to the safe slot have no block (or their
\* block request failed).
C7_CursorReachesNewestBlock ==
    IterationComplete
    => /\ blocksToScan # {}
       /\ lastBlock = SetMax(blocksToScan)
       /\ lastBlock <= safeSlot
       /\ (lastBlock = safeSlot <=> safeSlot \in blocksToScan)

\* an iteration has finished all its batches below its safe slot, whose block
\* does not exist
C7_Witness ==
    /\ IterationComplete
    /\ safeSlot > initialStartSlot
    /\ ~HasBlock(safeSlot)
    /\ lastBlock < safeSlot
    /\ Len(batches) > 1

\* C8: the batches of an iteration are consecutive from the cursor the
\* iteration started with (each begins where the previous one ends, so they
\* are pairwise disjoint), each holds at least 1 and at most batchSize slots,
\* there are never more than numBatches of them, and once the iteration has
\* finished they are numBatches and the last one ends at the target: together
\* they cover every slot of (cursor, target] exactly once.
C8_BatchesPartitionRange ==
    /\ \A i \in 1..Len(batches) :
          /\ batches[i].start = (IF i = 1 THEN initialStartSlot
                                 ELSE batches[i - 1].end)
          /\ batches[i].end - batches[i].start >= 1
          /\ batches[i].end - batches[i].start <= batchSize
          /\ batches[i].end <= newestBlock
    /\ Len(batches) <= numBatches
    /\ IterationComplete
       => /\ Len(batches) = numBatches
          /\ batches[Len(batches)].end = newestBlock

\* an iteration has finished with several full batches and a last, shorter one
C8_Witness ==
    /\ IterationComplete
    /\ Len(batches) >= 3
    /\ batches[1].end - batches[1].start = batchSize
    /\ batches[Len(batches)].end - batches[Len(batches)].start < batchSize

\* max(0, floor(head_slot / 32) - epochs_before_final) * 32, for the head of
\* the current iteration
SafeSlotOfIteration ==
    (IF headSlot \div 32 > epochsBeforeFinal
     THEN (headSlot \div 32) - epochsBeforeFinal ELSE 0) * 32

\* C9: no step of an iteration moves the cursor (in memory or in the nconf
\* file) past the safe slot of the head fetched in that iteration, no batch
\* ends beyond it, and no duty notification names a slot greater than it.
C9_NothingBeyondSafeSlot ==
    [][/\ lastBlock' # lastBlock => lastBlock' <= SafeSlotOfIteration
       /\ persisted' # persisted => persisted' <= SafeSlotOfIteration
       /\ pc \in {"fetch", "reconcile"} => batchEndSlot <= SafeSlotOfIteration
       /\ \A i \in NewEvents :
             events'[i].kind \in DutyKinds
             => \A s \in SeqToSet(events'[i].slots) : s <= SafeSlotOfIteration]_vars

\* the cursor has reached a safe slot that lies below the epoch of the head,
\* and a duty notification has been sent
C9_Witness ==
    /\ IterationComplete
    /\ lastBlock = SafeSlotOfIteration
    /\ lastBlock > CursorInitial
    /\ headSlot >= lastBlock + 32
    /\ \E i \in 1..Len(events) : events[i].kind \in DutyKinds

\* the batch about to be reconciled will end in the catch block
BatchWillThrow == pc = "reconcile" /\ Reconciled.threw

\* C10: when the reconciliation of a batch throws, the step sets the cursor
\* in memory and in the nconf file to the end of that batch and the loop goes
\* on with the next batch (or ends the iteration after the last one); and no
\* duty notification sent after the error notification of a batch names a
\* slot of that batch: what the batch did not send is never sent later.
C10_BatchErrorAdvancesCursor ==
    /\ [][BatchWillThrow
          => /\ lastBlock' = batchEndSlot
             /\ persisted' = batchEndSlot
             /\ IF batchNum + 1 < numBatches
                THEN pc' = "fetch" /\ batchNum' = batchNum + 1
                ELSE pc' = "sleep"]_vars
    /\ [](\A i \in 1..Len(events) : \A j \in 1..Len(events) :
             (/\ i < j
              /\ events[i].kind = "InternalError" /\ events[i].label = "batch"
              /\ events[j].kind \in DutyKinds)
             => \A s \in SeqToSet(events[j].slots) :
                    ~(events[i].during[1] < s /\ s <= events[i].during[2]))

\* a batch has thrown while missed attestations or withdrawals were waiting to
\* be notified, the cursor stands at or beyond its end, and a later batch has
\* sent a duty notification
C10_Witness ==
    \E i \in 1..Len(events) : \E j \in 1..Len(events) :
        /\ i < j
        /\ events[i].kind = "InternalError" /\ events[i].label = "batch"
        /\ events[j].kind \in DutyKinds
        /\ events[j].during[1] >= events[i].during[2]
        /\ persisted >= events[i].during[2]
        /\ DOMAIN missedAttestations \cup DOMAIN batchWithdrawals # {}

\* the positions of the messages a notifying step appends
NewDeliveries == (Len(delivered) + 1)..Len(delivered')

\* the delivered messages of one kind, as positions
DeliveredOf(kind) == {i \in 1..Len(delivered) : delivered[i].kind = kind}

\* C11 as the specification states it: any two delivered InternalError
\* messages, those of batch-level exceptions included, are at least
\* NOTIFICATION_RATE_LIMIT_INTERVAL apart.
C11_ErrorsRateLimited ==
    \A i \in DeliveredOf("InternalError") : \A j \in DeliveredOf("InternalError") :
        i < j => delivered[j].at - delivered[i].at >= NOTIFICATION_RATE_LIMIT_INTERVAL

\* C12: a stale-node message is sent by a stale check exactly when the head
\* is more than 10 slots behind the expected slot and at least
\* NOTIFICATION_RATE_LIMIT_INTERVAL has passed since the last one sent (a
\* lag of exactly 10 sends nothing); so every stale-node message carries a
\* lag above 10 and any two of them are at least 30 minutes apart.
C12_NodeStaleRateLimited ==
    /\ [](\A i \in DeliveredOf("NodeStale") :
             /\ delivered[i].n > 10
             /\ \A j \in DeliveredOf("NodeStale") :
                   i < j => delivered[j].at - delivered[i].at >= 30 * Minute)
    /\ [][notifyStep' = "stale"
          => ((\E i \in NewDeliveries : delivered'[i].kind = "NodeStale")
              <=> (/\ slotsBehind' > 10
                   /\ now - lastStaleNodeNotification >= 30 * Minute))]_vars

\* two stale-node messages were sent 30 minutes or more apart, and the stale
\* check that has just run, 5 minutes after the second one with the head
\* still more than 10 slots behind, sent nothing
C12_Witness ==
    /\ Cardinality(DeliveredOf("NodeStale")) = 2
    /\ notifyStep = "stale"
    /\ slotsBehind > 10
    /\ now - lastStaleNodeNotification = 5 * Minute


\* ------------------------------------------- the requests of one batch
besidesFetch == <<coreVars, notifyVars, cacheVars, schedVars, laterVars>>

\* slotsToFetch, and the slots of the batch itself
SlotsToFetch == 1..PrefetchSpan
BatchSlots == 1..(PrefetchSpan - 1)

RECURSIVE AttestationRequests(_)
\* getAttestations: the block of every scanned slot and, for the attestation
\* it carries (of the slot before), the committees of that slot
AttestationRequests(slot) ==
    IF slot > PrefetchSpan THEN << >>
    ELSE << <<"block", slot>> >>
         \o (IF slot - 1 \in BatchSlots THEN << <<"committees", slot - 1>> >>
             ELSE << >>)
         \o AttestationRequests(slot + 1)

\* the values a fetcher awaits, in order
Wanted(f) ==
    CASE f = "getProposerDuties" -> << <<"duties", 0>> >>
      [] f = "getAttestationDuties" ->
            [s \in BatchSlots |-> <<"committees", s>>]
      [] f = "getAttestations" -> AttestationRequests(1)
      [] f = "getBeaconWithdrawals" -> [s \in BatchSlots |-> <<"block", s>>]

\* nconf.get('maxConcurrentRequests') at start-up; the block cache holds the
\* blocks getNewBlocks has fetched, or has lost them
FetchConfigured ==
    /\ fetchPhase = "start"
    /\ maxConcurrentRequests' \in 1..MaxConcurrent
    /\ cached' \in {{}, {<<"block", s>> : s \in SlotsToFetch}}
    /\ fetchPhase' = "prefetch"
    /\ UNCHANGED <<chunkAt, inFlight, fetcherAt, fetcherAwaits, fetchErrors,
                   besidesFetch>>

\* processInChunks: Promise.all over the next chunk of slotsToFetch; every
\* slot that is not cached sends its committees request at once
PrefetchChunk ==
    /\ fetchPhase = "prefetch" /\ inFlight = {} /\ chunkAt <= PrefetchSpan
    /\ inFlight' = {<<"committees", s>> :
                       s \in {s \in chunkAt..(chunkAt + maxConcurrentRequests - 1) :
                                 s \in SlotsToFetch /\ <<"committees", s>> \notin cached}}
    /\ chunkAt' = chunkAt + maxConcurrentRequests
    /\ UNCHANGED <<maxConcurrentRequests, fetchPhase, cached, fetcherAt,
                   fetcherAwaits, fetchErrors, besidesFetch>>

\* the last chunk is settled: Promise.all starts the four fetchers
FetchersStart ==
    /\ fetchPhase = "prefetch" /\ inFlight = {} /\ chunkAt > PrefetchSpan
    /\ fetchPhase' = "fetchers"
    /\ UNCHANGED <<maxConcurrentRequests, chunkAt, inFlight, cached,
                   fetcherAt, fetcherAwaits, fetchErrors, besidesFetch>>

\* A fetcher runs to its next await: a cached value lets it go on, a request
\* in flight for the same key is joined, anything else is requested.
FetcherStep(f) ==
    /\ fetchPhase = "fetchers"
    /\ fetcherAwaits[f] = NoRequest
    /\ fetcherAt[f] <= Len(Wanted(f))
    /\ LET key == Wanted(f)[fetcherAt[f]]
       IN IF key \in cached
          THEN /\ fetcherAt' = [fetcherAt EXCEPT ![f] = @ + 1]
               /\ UNCHANGED <<fetcherAwaits, inFlight>>
          ELSE /\ fetcherAwaits' = [fetcherAwaits EXCEPT ![f] = key]
               /\ inFlight' = inFlight \cup {key}
               /\ UNCHANGED fetcherAt
    /\ UNCHANGED <<maxConcurrentRequests, fetchPhase, chunkAt, cached,
                   fetchErrors, besidesFetch>>

FetcherRuns == \E f \in Fetchers : FetcherStep(f)

\* A request is answered. Blocks and committees are cached on success; an
\* error is caught per slot, by the pre-fetch and by the fetcher alike, and
\* whoever awaited the request goes on.
RequestAnswered ==
    \E key \in inFlight : \E ok \in {TRUE, FALSE} :
        /\ ok \/ fetchErrors < MaxFaults
        /\ inFlight' = inFlight \ {key}
        /\ cached' = IF ok /\ key[1] # "duties" THEN cached \cup {key} ELSE cached
        /\ fetchErrors' = fetchErrors + (IF ok THEN 0 ELSE 1)
        /\ fetcherAwaits' = [f \in Fetchers |->
               IF fetcherAwaits[f] = key THEN NoRequest ELSE fetcherAwaits[f]]
        /\ fetcherAt' = [f \in Fetchers |->
               IF fetcherAwaits[f] = key THEN fetcherAt[f] + 1 ELSE fetcherAt[f]]
        /\ UNCHANGED <<maxConcurrentRequests, fetchPhase, chunkAt, besidesFetch>>

\* Promise.all resolves: every fetcher has returned
FetchersDone ==
    /\ fetchPhase = "fetchers"
    /\ \A f \in Fetchers : fetcherAt[f] > Len(Wanted(f))
    /\ fetchPhase' = "done"
    /\ UNCHANGED <<maxConcurrentRequests, chunkAt, inFlight, cached,
                   fetcherAt, fetcherAwaits, fetchErrors, besidesFetch>>

FetchNext ==
    \/ FetchConfigured
    \/ PrefetchChunk
    \/ FetchersStart
    \/ FetcherRuns
    \/ RequestAnswered
    \/ FetchersDone

SpecFetch == InitOneConfig /\ [][FetchNext]_vars

\* --------------------------------------------- the calls of mainLoop
besidesSched == <<coreVars, notifyVars, cacheVars, fetchVars, laterVars>>

\* mainLoop(): the new invocation runs up to its first await (line 408)
Spawned(invs) == Append(invs, Invocation("head", 0, "none"))

\* lines 445-447: await sleep; mainLoop(); return;
IdleExitFallsThrough == "tailSleep"
IdleExit == "returned"

\* what a batch may have to send, by duty kind
BatchContents == {<<"AttestationMissed">>,
                  <<"BlockProposed", "WithdrawalsBatched">>}

Sent(kind, batch) == [kind |-> kind, batch |-> batch]

\* line 536: the lookup is started for a proposed block with an execution
\* block number
MevLookupsAlways(contents, batch) == {batch}
MevLookupsOf(contents, batch) ==
    IF "BlockProposed" \in SeqToSet(contents) THEN {batch} ELSE {}

\* line 408: the head request is answered, or throws into the outer catch
HeadPolled(i) ==
    /\ invocations[i].pc = "head"
    /\ \E threw \in {TRUE, FALSE} :
          invocations' = [invocations EXCEPT ![i] =
              IF threw THEN Invocation("tailSleep", 0, "error")
              ELSE Invocation("scan", 0, "none")]
    /\ UNCHANGED <<batchCount, sent, mevLookups, mevSettled, besidesSched>>

\* lines 434-466: no block to process (idle exit), or numBatches batches
BlocksScanned(i) ==
    /\ invocations[i].pc = "scan"
    /\ \E numBatchesOf \in 0..MaxNumBatches :
          /\ batchCount + numBatchesOf <= MaxBatches
          /\ invocations' = [invocations EXCEPT ![i] =
                IF numBatchesOf = 0 THEN Invocation("idleSleep", 0, "idle")
                ELSE Invocation("betweenBatches", numBatchesOf, "none")]
    /\ UNCHANGED <<batchCount, sent, mevLookups, mevSettled, besidesSched>>

\* line 468: the loop enters its next batch and awaits the fetches
BatchStarts(i) ==
    /\ invocations[i].pc = "betweenBatches"
    /\ invocations' = [invocations EXCEPT ![i].pc = "inBatch"]
    /\ batchCount' = batchCount + 1
    /\ UNCHANGED <<sent, mevLookups, mevSettled, besidesSched>>

\* lines 505-750: the synchronous part of the batch sends its notifications
\* and starts the MEV lookups without awaiting them; after the last batch
\* the invocation goes to the sleep of line 770
BatchEnds(i) ==
    /\ invocations[i].pc = "inBatch"
    /\ \E contents \in BatchContents :
          /\ sent' = sent \o [k \in 1..Len(contents) |->
                                 Sent(contents[k], batchCount)]
          /\ mevLookups' = mevLookups \cup MevLookupsOf(contents, batchCount)
    /\ invocations' = [invocations EXCEPT ![i] =
          IF invocations[i].left > 1
          THEN Invocation("betweenBatches", invocations[i].left - 1, "none")
          ELSE Invocation("tailSleep", 0, "complete")]
    /\ UNCHANGED <<batchCount, mevSettled, besidesSched>>

\* how a lookup can end: a response with a positive blockMevReward, a
\* response without one, or a rejected request
MevOutcomes == {"reward", "noReward", "rejected"}

\* the messages of the two branches of .then
MevKinds == {"MevReward", "MevUnavailable"}

\* lines 538-556: .then sends the reward (line 542) or the "could not
\* retrieve" message (line 548); .catch only logs (line 555)
MevMessagesAlways(answer, batch) ==
    << Sent(IF answer = "reward" THEN "MevReward" ELSE "MevUnavailable", batch) >>
MevMessagesOf(answer, batch) ==
    CASE answer = "reward" -> << Sent("MevReward", batch) >>
      [] answer = "noReward" -> << Sent("MevUnavailable", batch) >>
      [] OTHER -> << >>

\* lines 538-556: a lookup is answered, at any time after it was started
MevAnswered ==
    \E batch \in mevLookups : \E answer \in MevOutcomes :
        /\ mevLookups' = mevLookups \ {batch}
        /\ mevSettled' = mevSettled \cup {<<batch, answer>>}
        /\ sent' = sent \o MevMessagesOf(answer, batch)
        /\ UNCHANGED <<invocations, batchCount, besidesSched>>

\* lines 445-447: the idle sleep ends, mainLoop() is called, return
IdleWakes(i) ==
    /\ invocations[i].pc = "idleSleep"
    /\ Len(invocations) < MaxInvocations
    /\ invocations' = Spawned([invocations EXCEPT ![i].pc = IdleExit])
    /\ UNCHANGED <<batchCount, sent, mevLookups, mevSettled, besidesSched>>

\* lines 770-771: the sleep ends, mainLoop() is called, the function ends
TailWakes(i) ==
    /\ invocations[i].pc = "tailSleep"
    /\ Len(invocations) < MaxInvocations
    /\ invocations' = Spawned([invocations EXCEPT ![i].pc = "returned"])
    /\ UNCHANGED <<batchCount, sent, mevLookups, mevSettled, besidesSched>>

SchedNext ==
    \/ \E i \in 1..Len(invocations) : HeadPolled(i)
    \/ \E i \in 1..Len(invocations) : BlocksScanned(i)
    \/ \E i \in 1..Len(invocations) : BatchStarts(i)
    \/ \E i \in 1..Len(invocations) : BatchEnds(i)
    \/ MevAnswered
    \/ \E i \in 1..Len(invocations) : IdleWakes(i)
    \/ \E i \in 1..Len(invocations) : TailWakes(i)

SpecSched == InitOneConfig /\ [][SchedNext]_vars

\* ------------------------------------------- a cache of any maxSize
besidesSize == <<coreVars, notifyRest, cacheVars, fetchVars, schedVars, decoded, runs>>

\* the constructor is given options.maxSize
CacheBuilt ==
    /\ sets = 0 /\ maxSize = 10000 /\ now = StartMinutes * Minute
    /\ maxSize' \in 1..MaxMaxSize
    /\ UNCHANGED <<entries, sets, now, besidesSize>>

\* setBlock / setSlotCommittees with a slot the Map does not hold
SetNewSlot ==
    /\ sets < MaxSets /\ maxSize <= MaxMaxSize
    /\ sets' = sets + 1
    /\ entries' = MapSet(EnforceSizeOf(entries, maxSize), Entry(sets', "value", now))
    /\ UNCHANGED <<maxSize, now, besidesSize>>

\* setBlock / setSlotCommittees with the oldest slot of the Map
SetOldestSlot ==
    /\ sets < MaxSets /\ maxSize <= MaxMaxSize /\ entries # << >>
    /\ sets' = sets + 1
    /\ entries' = MapSet(EnforceSizeOf(entries, maxSize), Entry(entries[1].slot, "value", now))
    /\ UNCHANGED <<maxSize, now, besidesSize>>

\* the cleanup timer fires
SizeSweep ==
    /\ maxSize <= MaxMaxSize /\ CleanupExpired(entries, now) # entries
    /\ entries' = CleanupExpired(entries, now)
    /\ UNCHANGED <<maxSize, sets, now, besidesSize>>

\* half an hour passes
SizeClockAdvances ==
    /\ maxSize <= MaxMaxSize
    /\ now + CacheTtl <= (StartMinutes + MaxElapsedMinutes) * Minute
    /\ now' = now + CacheTtl
    /\ UNCHANGED <<maxSize, entries, sets, besidesSize>>

SizeNext ==
    \/ CacheBuilt
    \/ SetNewSlot
    \/ SetOldestSlot
    \/ SizeSweep
    \/ SizeClockAdvances

SpecSize == InitOneConfig /\ [][SizeNext]_vars

\* ------------------------------------------------------ the decoders
besidesCodec == <<coreVars, notifyVars, cacheVars, fetchVars, schedVars, sizeVars, runs>>

BitSeqs == UNION {[1..k -> {0, 1}] : k \in 0..MaxBits}

\* SSZ: the bytes of a bit sequence, LSB first, zero-padded to whole bytes
PackBits(bits) ==
    [j \in 1..((Len(bits) + 7) \div 8) |->
        SeqSum([i \in 1..8 |->
                   IF 8 * (j - 1) + i <= Len(bits)
                   THEN bits[8 * (j - 1) + i] * Pow2(i - 1) ELSE 0])]

\* SSZ bitlist: the bits, then the delimiter bit at position Len(bits)
EncodeBitlist(bits) == PackBits(Append(bits, 1))

\* SSZ bitvector
EncodeBitvector(v) == PackBits(v)

\* the slot whose committees the Electra aggregates are decoded against
ElectraCommittees == Committees(199)

\* committee_bits selecting the committees of `selected`
CommitteeBitsOf(selected) ==
    EncodeBitvector([c \in 1..Len(ElectraCommittees) |->
                        IF (c - 1) \in selected THEN 1 ELSE 0])

AllValidators == UNION {SeqToSet(ElectraCommittees[c]) : c \in 1..Len(ElectraCommittees)}

\* decodeAggregationBits on the bitlist of `bits`, against a committee with
\* one validator per bit
BitlistDecoded ==
    /\ decoded.op = "none"
    /\ \E bits \in BitSeqs :
          decoded' = [op |-> "bitlist", bits |-> bits, total |-> Len(bits),
                      out |-> decodeAggregationBits(EncodeBitlist(bits),
                                 [i \in 1..Len(bits) |-> 100 + i])]
    /\ UNCHANGED besidesCodec

\* decodeCommitteeBits on the bitvector of `bits`, with totalCommittees up
\* to its length
CommitteeBitsDecoded ==
    /\ decoded.op = "none"
    /\ \E bits \in BitSeqs : \E total \in 0..Len(bits) :
          decoded' = [op |-> "bitvector", bits |-> bits, total |-> total,
                      out |-> decodeCommitteeBits(EncodeBitvector(bits), total)]
    /\ UNCHANGED besidesCodec

\* the Electra branch of getAttestations on an aggregate of slot 199 whose
\* committee_bits select `selected` and whose aggregation_bits carry `bits`
ElectraDecoded ==
    /\ decoded.op = "none"
    /\ \E bits \in BitSeqs : \E selected \in SUBSET (0..(Len(ElectraCommittees) - 1)) :
          decoded' = [op |-> "electra", bits |-> bits, total |-> selected,
                      out |-> DecodeAttestation(
                                 Att(199, 0, EncodeBitlist(bits), CommitteeBitsOf(selected)),
                                 200, AllValidators)]
    /\ UNCHANGED besidesCodec

\* the records a scan can hand to the deduplication: attestations of slot 6
\* (committees 0 and 1) and of slot 7, included in block 8 or block 9, with
\* the monitored validators they decode to, in committee order
MergeKeys == {<<6, 0, 8>>, <<6, 0, 9>>, <<6, 1, 8>>, <<7, 0, 8>>}
MergeIndices == {<<1>>, <<2>>, <<1, 2>>, <<2, 1>>}
MergeRows == {AttRow(k[1], k[3], k[2], ix) : k \in MergeKeys, ix \in MergeIndices}
RowSeqs == UNION {[1..n -> MergeRows] : n \in 0..MaxRows}

\* "De-duplicate and group attestations by (slot, committee)" on the records
\* of `all`
RecordsMerged ==
    /\ decoded.op = "none"
    /\ \E all \in RowSeqs :
          decoded' = [op |-> "merge", bits |-> all, total |-> 0,
                      out |-> Deduplicate(all, << >>)]
    /\ UNCHANGED besidesCodec

\* decodeAggregationBits on any bytes (delimiter anywhere or absent) against
\* a committee of `size` validators 100, 200, ...
LegacyDecoded ==
    /\ decoded.op = "none"
    /\ \E bits \in BitSeqs : \E size \in 0..MaxCommitteeSize :
          decoded' = [op |-> "legacy", bits |-> BitsOf(PackBits(bits)),
                      total |-> size,
                      out |-> decodeAggregationBits(PackBits(bits),
                                 [i \in 1..size |-> 100 * i])]
    /\ UNCHANGED besidesCodec

CodecNext ==
    \/ BitlistDecoded
    \/ CommitteeBitsDecoded
    \/ ElectraDecoded
    \/ RecordsMerged
    \/ LegacyDecoded

SpecCodec == InitOneConfig /\ [][CodecNext]_vars

\* ------------------------------------------------------------ test mode
besidesModes == <<coreVars, notifyVars, cacheVars, fetchVars, schedVars, sizeVars, decoded>>

\* line 336: the wrapper is called unless TEST_MODE is 'true'; the message
\* reaches the sink unless the wrapper fails
ReachesSink(mode, fails) == mode = "live" /\ ~fails

\* lines 337-346: a throw of the wrapper is caught, a rejection of its
\* promise gets a .catch: sendTelegramNotification never throws
ThrowsUncaught(mode, fails) == mode = "live" /\ fails
Throws(mode, fails) == FALSE

\* what one batch sends: nothing, or its notifications in order
BatchMessages == {<< >>, <<"AttestationMissed">>, <<"BlockMissed">>,
                  <<"BlockProposed", "WithdrawalsBatched">>}

\* One batch in one process: the requests, console.log and the wrapper for
\* every message, "Update progress"; a throw inside the batch goes to its
\* catch block, which sends the error message and saves the cursor.
BatchIn(run, mode, messages, fails, batchEnd) ==
    IF messages # << >> /\ Throws(mode, fails)
    THEN Run(run.emitted \o << messages[1], "InternalError" >>,
             run.sink,
             Append(run.cursors, batchEnd),
             run.requested + 1)
    ELSE Run(run.emitted \o messages,
             run.sink \o (IF ReachesSink(mode, fails) THEN messages ELSE << >>),
             Append(run.cursors, batchEnd),
             run.requested + 1)

\* both processes run their next batch on the same beacon responses; the
\* Telegram wrapper of the live one works or fails
BothRunBatch ==
    /\ runs["live"].requested < MaxBatches
    /\ \E messages \in BatchMessages : \E fails \in BOOLEAN :
          runs' = [m \in Modes |->
                     BatchIn(runs[m], m, messages, fails,
                             (runs[m].requested + 1) * batchSize)]
    /\ UNCHANGED besidesModes

ModesNext == BothRunBatch

SpecModes == InitOneConfig /\ [][ModesNext]_vars

\* ---------------------------------------------------- cached fetches
RequestsInFlight(kind, slot) == {r \in http : r.kind = kind /\ r.slot = slot}

\* returns of this step
NewReturns == returned' \ returned

\* C13: for blocks and for committees at most one HTTP request per slot is
\* in flight at any time, whatever the interleaving of calls, responses,
\* evictions and sweeps; a call that arrives while the request is in flight
\* sends none of its own and returns what the call that started the request
\* returns (value, null for a missed slot, or the error).
C13_SingleFlight ==
    /\ \A kind \in CacheKinds : \A slot \in CacheSlots :
           Cardinality(RequestsInFlight(kind, slot)) <= 1
    /\ \A x \in returned :
           x.via \notin {0, x.call} =>
               \E y \in returned :
                   /\ y.call = x.via /\ y.via = x.via
                   /\ y.kind = x.kind /\ y.slot = x.slot
                   /\ y.result = x.result

C13_Witness ==
    \E x \in returned : \E y \in returned :
        /\ x.via \notin {0, x.call} /\ x.result = "error"
        /\ y.call = x.via /\ y.result = "error"

\* C14: a slot is tracked as in flight exactly while its request is in
\* flight; when the request ends with a block, a 404 or committees, the
\* cache holds the entry in the state where the tracker entry is gone; a
\* promise is only ever handed out while its request is in flight, so after
\* a failure a later call sends a new request.
C14_MarkerOnlyWhileInFlight ==
    /\ [](\A kind \in CacheKinds : \A slot \in CacheSlots :
             /\ slot \in DOMAIN requests[kind] =>
                    \E r \in RequestsInFlight(kind, slot) :
                        r.id = requests[kind][slot]
             /\ RequestsInFlight(kind, slot) # {} =>
                    slot \in DOMAIN requests[kind])
    /\ [][\A kind \in CacheKinds : \A slot \in CacheSlots :
             /\ ( /\ slot \in DOMAIN requests[kind]
                  /\ slot \notin DOMAIN requests'[kind]
                  /\ httpErrors' = httpErrors )
                => Has(cache'[kind], slot)
             /\ \A c \in DOMAIN waiting' :
                  ( (c \notin DOMAIN waiting \/ waiting'[c] # waiting[c])
                    => \E r \in http' : r.id = c )]_vars

C14_Witness ==
    \E x \in returned : \E y \in returned :
        /\ x.result = "error" /\ x.via = x.call
        /\ y.kind = x.kind /\ y.slot = x.slot
        /\ y.call > x.call /\ y.via = y.call /\ y.result # "error"

\* C15: getCachedBlock never returns null for a slot whose block the
\* beacon node has.
C15_NullOnlyForMissedSlot ==
    \A x \in returned :
        (x.kind = "blocks" /\ HasBlock(x.slot)) => x.result # "none"

Tombstone(slot) ==
    Has(cache.blocks, slot) /\ Lookup(cache.blocks, slot).data = "none"

\* C16: a 404 for a block stores a null entry and returns null; while that
\* entry is in the block cache, a getCachedBlock call for the slot returns
\* null and sends no request.
C16_TombstoneAnswersWithoutRequest ==
    /\ [](\A x \in returned :
             (x.kind = "blocks" /\ x.via # 0 /\ ~HasBlock(x.slot)
              /\ x.result # "error") => x.result = "none")
    /\ [][\A slot \in CacheSlots :
             /\ ( /\ RequestsInFlight("blocks", slot) # {}
                  /\ RequestsInFlight("blocks", slot)' = {}
                  /\ httpErrors' = httpErrors /\ ~HasBlock(slot) )
                => Tombstone(slot)'
             /\ Tombstone(slot) =>
                  /\ RequestsInFlight("blocks", slot)' = {}
                  /\ \A x \in NewReturns :
                        (x.kind = "blocks" /\ x.slot = slot)
                        => (x.result = "none" /\ x.via = 0)]_vars

C16_Witness ==
    \E x \in returned : \E y \in returned :
        /\ x.kind = "blocks" /\ x.via = x.call /\ x.result = "none"
        /\ y.kind = "blocks" /\ y.slot = x.slot /\ y.call > x.call
        /\ y.via = 0 /\ y.result = "none"
        /\ Tombstone(x.slot)

\* ------------------------------------------- failed requests in a batch
\* the attestation of validator v for slot s is in a block of the inclusion
\* window of s
IncludedOnChain(v, s) ==
    \E b \in (s + 1)..(s + InclusionSlots) :
        /\ HasBlock(b)
        /\ \E i \in 1..Len(AttestationsOf(b)) :
              /\ AttestationsOf(b)[i].slot = s
              /\ DecodeAttestation(AttestationsOf(b)[i], b, {v}) # << >>

\* the (validator, slot) pairs named by AttestationMissed notifications
NotifiedMissed ==
    UNION {events[i].pairs : i \in {i \in 1..Len(events) :
                                        events[i].kind = "AttestationMissed"}}

\* C17: a failed committees or block request of a batch only skips: no
\* AttestationMissed notification names a slot whose committees request
\* failed, none names an attestation that is on the chain, the batch goes
\* on to its synchronous part and the cursor advances to the batch end.
C17_FailedRequestOnlySkips ==
    /\ [](\A p \in NotifiedMissed :
             /\ <<"committee", p[2]>> \notin skipped
             /\ ~IncludedOnChain(p[1], p[2]))
    /\ [][pc = "fetch" => pc' = "reconcile"]_vars
    /\ [][pc = "reconcile"
          => lastBlock' = batchEndSlot /\ persisted' = batchEndSlot]_vars

\* C18: at every moment of a batch, in the committee pre-fetch and in the
\* fetch phase after it, the beacon-node requests in flight number at most
\* maxConcurrentRequests, for every configured value from 1 up.
C18_RequestsWithinCeiling ==
    fetchPhase # "start" => Cardinality(inFlight) <= maxConcurrentRequests

\* ------------------------------------------------ one iteration at a time
ActiveInvocations ==
    {i \in 1..Len(invocations) : invocations[i].pc # "returned"}

ActiveBatches == {i \in 1..Len(invocations) : invocations[i].pc = "inBatch"}

\* C19: at most one invocation of mainLoop is active and at most one batch
\* is active at any time; mainLoop is called again only by an invocation that
\* has slept after its idle exit, after its last batch or after the outer
\* catch, and that invocation does nothing after the call.
C19_OneIterationAtATime ==
    /\ [](Cardinality(ActiveInvocations) <= 1 /\ Cardinality(ActiveBatches) <= 1)
    /\ [][Len(invocations') > Len(invocations)
          => /\ Len(invocations') = Len(invocations) + 1
             /\ invocations[Len(invocations)].pc \in {"idleSleep", "tailSleep"}
             /\ invocations[Len(invocations)].exit \in {"idle", "complete", "error"}
             /\ invocations[Len(invocations)].left = 0
             /\ invocations'[Len(invocations)].pc = "returned"]_vars

\* every exit has been taken and followed by a new invocation
C19_Witness ==
    /\ \A e \in {"idle", "complete", "error"} :
          \E i \in 1..Len(invocations) :
              invocations[i].exit = e /\ invocations[i].pc = "returned"
    /\ ActiveInvocations # {}

\* C20 as the specification states it: whatever is sent for batch B, the
\* MEV-reward messages of its blocks included, is sent before anything of a
\* later batch.
C20_BatchOrderWithMev ==
    \A i \in 1..Len(sent) : \A j \in 1..Len(sent) :
        i < j => sent[i].batch <= sent[j].batch

\* C20: the proposer, missed-attestation and withdrawal notifications of
\* batch B are sent before any of them of a later batch; an MEV-reward
\* message is sent after the BlockProposed notification of its batch, at any
\* later time, possibly after notifications of later batches.
C20_BatchOrderOfDutyEvents ==
    /\ \A i \in 1..Len(sent) : \A j \in 1..Len(sent) :
          (i < j /\ sent[i].kind \notin MevKinds /\ sent[j].kind \notin MevKinds)
          => sent[i].batch <= sent[j].batch
    /\ \A j \in 1..Len(sent) :
          sent[j].kind \in MevKinds
          => \E i \in 1..(j - 1) :
                 sent[i].kind = "BlockProposed" /\ sent[i].batch = sent[j].batch
    /\ \A b \in mevLookups :
          \E i \in 1..Len(sent) :
              sent[i].kind = "BlockProposed" /\ sent[i].batch = b

\* an MEV-reward message has been sent after a notification of a later batch
C20_Witness ==
    \E i \in 1..Len(sent) : \E j \in 1..Len(sent) :
        /\ i < j /\ sent[j].kind \in MevKinds
        /\ sent[i].kind \notin MevKinds /\ sent[i].batch > sent[j].batch

\* ------------------------------------------------- the inclusion window
\* C21: a monitored validator is counted as attested for slot s exactly
\* when a block of s+1 .. s+32 carries its attestation for s (a block at
\* s+32 counts, a block at s+33 does not), wherever s lies in its batch; a
\* failed request can only lose an attestation.
C21_WindowIsRelativeToSlot ==
    \A c \in classified :
        /\ c[3] = "attested" => IncludedOnChain(c[1], c[2])
        /\ (c[3] = "missed" /\ faults = 0) => ~IncludedOnChain(c[1], c[2])

\* C22: whatever the sets and sweeps, a Map of the cache never holds more
\* than maxSize entries, for every maxSize from 1 up.
C22_SizeWithinMaxSize == Len(entries) <= maxSize

\* ------------------------------------------------------------ decoding
\* C23: for every bit sequence of length N >= 0, decodeAggregationBits on
\* its SSZ bitlist against a committee of N validators returns the members at
\* the positions of the set bits, in position order.
C23_BitlistRoundTrip ==
    decoded.op = "bitlist" =>
        decoded.out = [j \in 1..Len(SortedSeq({i \in 1..Len(decoded.bits) : decoded.bits[i] = 1})) |->
                          100 + SortedSeq({i \in 1..Len(decoded.bits) : decoded.bits[i] = 1})[j]]

\* a bitlist whose delimiter is in the second byte, some bits set and some not
C23_Witness ==
    /\ decoded.op = "bitlist" /\ Len(decoded.bits) >= 8
    /\ Len(decoded.out) >= 2 /\ Len(decoded.out) < Len(decoded.bits)
    /\ decoded.bits[1] = 0

\* C24: decodeCommitteeBits on the bytes of a bitvector returns the indices
\* of its set bits in ascending order, without those at or above
\* totalCommittees (padding bits and bytes beyond the committees).
C24_CommitteeBitsRoundTrip ==
    decoded.op = "bitvector" =>
        decoded.out = SortedSeq({c \in 0..(decoded.total - 1) : decoded.bits[c + 1] = 1})

\* a bitvector of two bytes with a set bit kept and a set bit at or above
\* totalCommittees discarded
C24_Witness ==
    /\ decoded.op = "bitvector" /\ Len(decoded.bits) > 8
    /\ decoded.total < Len(decoded.bits) /\ decoded.bits[decoded.total + 1] = 1
    /\ Len(decoded.out) >= 1

\* the sizes of the selected committees before committee c (0-based)
OffsetOf(selected, c) ==
    SeqSum([k \in 1..Len(ElectraCommittees) |->
               IF (k - 1) \in selected /\ (k - 1) < c
               THEN Len(ElectraCommittees[k]) ELSE 0])

\* the members of committee c whose bit, at offset + position, is a set
\* data bit
ExpectedAttesting(bits, selected, c) ==
    LET cv == ElectraCommittees[c + 1]
        idx == SortedSeq({i \in 0..(Len(cv) - 1) :
                   /\ OffsetOf(selected, c) + i < Len(bits)
                   /\ bits[OffsetOf(selected, c) + i + 1] = 1})
    IN [j \in 1..Len(idx) |-> cv[idx[j] + 1]]

\* C25: an Electra aggregate is decoded committee by committee in ascending
\* order of the selected committee indices, committee c reading the data
\* bits from its offset (the sizes of the selected committees before it):
\* member i of c is attested exactly when data bit offset + i is set.
C25_ElectraDecoding ==
    decoded.op = "electra" =>
        LET cs == SortedSeq({c \in decoded.total :
                       ExpectedAttesting(decoded.bits, decoded.total, c) # << >>})
        IN decoded.out = [k \in 1..Len(cs) |->
               AttRow(199, 200, cs[k],
                      ExpectedAttesting(decoded.bits, decoded.total, cs[k]))]

\* sizes [2,2,3,2], committee_bits 0x0A, aggregation_bits 0x17: 11, 12 and
\* 31 attested, 32 not
C25_Witness ==
    /\ decoded.op = "electra" /\ decoded.total = {1, 3}
    /\ decoded.bits = <<1, 1, 1, 0>>
    /\ CommitteeBitsOf(decoded.total) = <<10>>
    /\ EncodeBitlist(decoded.bits) = <<23>>
    /\ decoded.out = << AttRow(199, 200, 1, <<11, 12>>), AttRow(199, 200, 3, <<31>>) >>

\* the data bits the selected committees need
SelectedSize(selected) == OffsetOf(selected, Len(ElectraCommittees))

\* C26: an Electra aggregate whose data bits are more or fewer than the
\* members of the selected committees is rejected: it contributes no
\* attesting validator.
C26_LengthMismatchRejected ==
    (decoded.op = "electra" /\ Len(decoded.bits) # SelectedSize(decoded.total))
        => decoded.out = << >>

\* ---------------------------------------------------------- idempotence
\* mainLoop is entered again after a completed iteration and finds the head
\* where it was
SameHeadAgain ==
    pc = "sleep" /\ outcome = "complete" /\ pc' = "scan" /\ headSlot' = headSlot

\* the block scan of the last iteration lost no block to a failed request
ScanLostNothing ==
    blocksToScan = {s \in getNewBlocks(initialStartSlot, headSlot, {}) : s <= safeSlot}

NotifiedBlockMissed ==
    UNION {events[i].pairs : i \in {i \in 1..Len(events) :
                                        events[i].kind = "BlockMissed"}}

C30_MissedOnlyIfNotIncluded ==
    \A i \in 1..Len(events) :
        events[i].kind = "AttestationMissed"
            => \A p \in events[i].pairs : ~IncludedOnChain(p[1], p[2])

\* ------------------------------------------- merging and legacy decoding
\* the records of `rows` with the key (slot s, committee c)
WithKey(rows, s, c) ==
    {k \in 1..Len(rows) : rows[k].f_slot = s /\ rows[k].f_inclusion_index = c}

\* C31: the records that share (attestation slot, committee index) are
\* merged into one record whose attesting validators are the union of
\* theirs, none repeated, and no other record appears; a validator counts
\* as attested for slot s iff some decoded record for s names it.
C31_MergedByKey ==
    decoded.op = "merge" =>
        LET all == decoded.bits
            out == decoded.out
        IN /\ \A k \in 1..Len(all) :
                 LET same == WithKey(all, all[k].f_slot, all[k].f_inclusion_index)
                     got == WithKey(out, all[k].f_slot, all[k].f_inclusion_index)
                 IN /\ Cardinality(got) = 1
                    /\ \A g \in got :
                          /\ SeqToSet(out[g].f_aggregation_indices)
                               = UNION {SeqToSet(all[j].f_aggregation_indices) : j \in same}
                          /\ Len(out[g].f_aggregation_indices)
                               = Cardinality(SeqToSet(out[g].f_aggregation_indices))
           /\ \A g \in 1..Len(out) :
                 WithKey(all, out[g].f_slot, out[g].f_inclusion_index) # {}
           /\ \A s \in {6, 7} : \A v \in Validators :
                 v \in AttestedValidators(s, out)
                     <=> \E k \in 1..Len(all) :
                            /\ all[k].f_slot = s
                            /\ v \in SeqToSet(all[k].f_aggregation_indices)

\* three records, two of them with the same key from different inclusion
\* blocks and with a validator in common, merged into two
C31_Witness ==
    /\ decoded.op = "merge" /\ Len(decoded.bits) = 3 /\ Len(decoded.out) = 2
    /\ \E j, k \in 1..3 :
          /\ j < k
          /\ decoded.bits[j].f_slot = decoded.bits[k].f_slot
          /\ decoded.bits[j].f_inclusion_index = decoded.bits[k].f_inclusion_index
          /\ decoded.bits[j].f_inclusion_slot # decoded.bits[k].f_inclusion_slot
          /\ decoded.bits[j].f_aggregation_indices = <<1>>
          /\ decoded.bits[k].f_aggregation_indices = <<2, 1>>

\* C32: with D the position of the highest set bit, decodeAggregationBits
\* returns committee[i] for exactly the i below min(D, committee size) whose
\* bit is set, in ascending order of i, and nothing when no bit is set or
\* only the delimiter is.
C32_LegacyDecoding ==
    decoded.op = "legacy" =>
        LET bits == decoded.bits
            set == {i \in 0..(Len(bits) - 1) : bits[i + 1] = 1}
            D == IF set = {} THEN 0 ELSE SetMax(set)
            idx == SortedSeq({i \in set : i < Min(D, decoded.total)})
        IN /\ decoded.out = [j \in 1..Len(idx) |-> 100 * (idx[j] + 1)]
           /\ Cardinality(set) <= 1 => decoded.out = << >>

\* committee [100, 200, 300, 400] with 0x1b gives 100, 200, 400
C32_Witness ==
    /\ decoded.op = "legacy" /\ decoded.total = 4
    /\ decoded.bits = <<1, 1, 0, 1, 1, 0, 0, 0>>
    /\ decoded.out = <<100, 200, 400>>

\* a committee shorter than the bitlist: only its validators are returned
C32_WitnessShortCommittee ==
    /\ decoded.op = "legacy" /\ decoded.total = 2
    /\ delimiterPos(decoded.bits) > 2
    /\ decoded.out = <<100, 200>>

\* ------------------------------------------------- window below the head
\* C33: whatever epochsBeforeFinal is configured (0 and unset included),
\* the inclusion window of every slot of a batch, and so the scan of
\* getAttestations up to batch end + 32, lies at or below the head slot the
\* iteration observed; the same holds for every slot the cursor has passed.
C33_WindowAtOrBelowHead ==
    /\ pc \in {"fetch", "reconcile"}
          => /\ batchEndSlot + InclusionSlots <= headSlot
             /\ \A s \in blocksToScan : s + InclusionSlots <= headSlot
    /\ lastBlock > CursorInitial => lastBlock + InclusionSlots <= headSlot

\* epochsBeforeFinal configured as 0 (or unset), and a batch whose last
\* inclusion window ends exactly at the head
C33_Witness ==
    /\ epochsBeforeFinalConfig = 0
    /\ pc = "fetch"
    /\ batchEndSlot + InclusionSlots = headSlot

\* --------------------------------------------------------------- liveness
\* the last slot with a block at or below the safe slot of the highest head
CursorTarget ==
    SetMax({s \in 0..SafeSlotOf(MaxHead, epochsBeforeFinal) : s = 0 \/ HasBlock(s)})

\* every started batch ends with the cursor at its end slot, every
\* iteration ends, and the scheduler polls again for ever
BatchesAndIterationsEnd ==
    /\ (pc = "fetch") ~> (pc = "reconcile")
    /\ (pc = "reconcile") ~> (pc \in {"fetch", "sleep"})
    /\ [][pc = "reconcile"
          => lastBlock' = batchEndSlot /\ persisted' = batchEndSlot]_vars
    /\ (pc # "sleep") ~> (pc = "sleep")
    /\ []<>(pc = "scan")

\* C34 as stated: when every request returns, batches and iterations end,
\* polling never stops, and once the head has advanced the cursor passes
\* every slot below it that can be processed.
C34_ProgressWhenRequestsReturn ==
    /\ BatchesAndIterationsEnd
    /\ <>[](headSlot = MaxHead) => <>(lastBlock >= CursorTarget)

\* strong fairness of PollWork: if again and again getNewBlocks is called
\* with blocks waiting, then again and again it returns rows
ScanSucceedsAgain ==
    \/ <>[](~(pc = "scan" /\ ScannedBlocks({}) # {}))
    \/ []<><<pc = "scan" /\ pc' = "fetch">>_vars

\* C34 amended: the cursor part needs the block scan to succeed again and
\* again, not only to return.
C34_ProgressWhenScanSucceeds ==
    /\ BatchesAndIterationsEnd
    /\ (ScanSucceedsAgain /\ <>[](headSlot = MaxHead))
          => <>(lastBlock >= CursorTarget)

\* the cursor has reached the last block below the safe slot of the highest
\* head, after a failed poll and a failed request
C34_Witness ==
    /\ headSlot = MaxHead /\ lastBlock = CursorTarget /\ pc = "sleep"
    /\ failedPolls > 0 /\ faults > 0
    /\ Len(batches) >= 2

\* ------------------------------------------------------------ withdrawals
\* the withdrawals to monitored validators the blocks of (start, end] hold,
\* as (validator, slot)
WithdrawalsOnChain(start, end) ==
    {<<v, s>> \in validatorsToMonitor \X ((start + 1)..end) :
        /\ HasBlock(s)
        /\ \E i \in 1..Len(WithdrawalsOf(s)) : WithdrawalsOf(s)[i].validator_index = v}

\* the amount the block at s withdraws to v
AmountOf(v, s) ==
    SeqSum([i \in 1..Len(WithdrawalsOf(s)) |->
               IF WithdrawalsOf(s)[i].validator_index = v
               THEN WithdrawalsOf(s)[i].amount ELSE 0])

RECURSIVE AmountOfAll(_)
AmountOfAll(ps) ==
    IF ps = {} THEN 0
    ELSE LET p == CHOOSE q \in ps : TRUE
         IN AmountOf(p[1], p[2]) + AmountOfAll(ps \ {p})

WithdrawalEventIndices ==
    {i \in 1..Len(events) : events[i].kind = "WithdrawalsBatched"}

\* what every WithdrawalsBatched notification holds: withdrawals of its own
\* batch to validators of its label, all of them whose block was read, with
\* their sum; one notification per label and batch; no withdrawal twice
WithdrawalEventsExact ==
    /\ \A i \in WithdrawalEventIndices :
          LET e == events[i]
              mine == {p \in WithdrawalsOnChain(e.during[1], e.during[2]) :
                          /\ getValidatorLabel(p[1]) = e.label
                          /\ <<"wblock", p[2]>> \notin skipped}
          IN /\ e.pairs = mine
             /\ e.pairs # {}
             /\ Len(e.slots) = Cardinality(e.pairs)
             /\ e.n = AmountOfAll(e.pairs)
    /\ \A i, j \in WithdrawalEventIndices :
          i # j => /\ ~(events[i].label = events[j].label
                         /\ events[i].during = events[j].during)
                   /\ events[i].pairs \cap events[j].pairs = {}

\* C35 as the specification states it: every withdrawal to a monitored
\* validator in a processed batch is in exactly one WithdrawalsBatched
\* notification, that of its label and batch, with the exact entries and sum.
C35_EveryWithdrawalReported ==
    /\ WithdrawalEventsExact
    /\ \A p \in WithdrawalsOnChain(CursorInitial, lastBlock) :
          Cardinality(EventsFor({"WithdrawalsBatched"}, p[1], p[2])) = 1

\* C35: the same, except that a withdrawal whose block request failed in
\* its batch, or whose batch ended in an exception before the withdrawal
\* notifications were sent, is in no notification at all.
C35_ReportedUnlessSkipped ==
    /\ WithdrawalEventsExact
    /\ \A p \in WithdrawalsOnChain(CursorInitial, lastBlock) :
          Cardinality(EventsFor({"WithdrawalsBatched"}, p[1], p[2]))
             = (IF <<"wblock", p[2]>> \in skipped \/ BatchErrorCovering(p[2])
                THEN 0 ELSE 1)

\* a notification with the withdrawals of two validators of one label and
\* their sum, after a notification of an earlier batch
C35_Witness ==
    \E i, j \in WithdrawalEventIndices :
        /\ i < j
        /\ events[i].during # events[j].during
        /\ Cardinality(events[j].pairs) = 2
        /\ events[j].n = 9

\* two labels notified in one batch
C35_WitnessTwoLabels ==
    \E i, j \in WithdrawalEventIndices :
        /\ events[i].label # events[j].label
        /\ events[i].during = events[j].during

\* a withdrawal lost to a failed block request while the other withdrawal of
\* the batch is notified
C35_WitnessSkipped ==
    \E p \in WithdrawalsOnChain(CursorInitial, lastBlock) :
        /\ <<"wblock", p[2]>> \in skipped
        /\ WithdrawalEventIndices # {}

\* ----------------------------------------------- accumulators per batch
BatchedIndices ==
    {i \in 1..Len(events) :
        events[i].kind \in {"AttestationMissed", "WithdrawalsBatched"}}

\* C36: every AttestationMissed and WithdrawalsBatched notification names
\* only slots of the batch that sent it: nothing accumulated in an earlier
\* batch is sent by a later one, also after a batch that ended in the catch
\* block with its accumulators still filled.
C36_OnlySlotsOfOwnBatch ==
    \A i \in BatchedIndices :
        /\ \A s \in SeqToSet(events[i].slots) :
              events[i].during[1] < s /\ s <= events[i].during[2]
        /\ \A p \in events[i].pairs :
              events[i].during[1] < p[2] /\ p[2] <= events[i].during[2]

\* a batch ended in the catch block with a missed attestation accumulated
\* and not sent, and a later batch has sent its own missed attestations
C36_Witness ==
    \E i \in 1..Len(events) : \E j \in BatchedIndices :
        /\ i < j
        /\ events[i].kind = "InternalError" /\ events[i].label = "batch"
        /\ events[i].during[2] <= events[j].during[1]
        /\ \E c \in classified :
              /\ c[3] = "missed"
              /\ events[i].during[1] < c[2] /\ c[2] <= events[i].during[2]

\* ---------------------------------------------------------------- eviction
SlotsOf(map) == {map[i].slot : i \in 1..Len(map)}

\* how many entries a set on `entries` has to remove first
ToRemove == IF Len(entries) >= maxSize THEN maxSize \div 10 ELSE 0

\* C37: a set on a store with size >= maxSize first removes exactly
\* floor(0.1 * maxSize) entries, the earliest in insertion order; a set on a
\* smaller store removes nothing; every other entry stays as it was and in
\* its order, and the key that was set is in the store afterwards.
C37_EvictsOldestTenth ==
    [][sets' = sets + 1 =>
         \E key \in SlotsOf(entries') :
            LET kept == SubSeq(entries, ToRemove + 1, Len(entries))
                others == SelectSeq(kept, LAMBDA e : e.slot # key)
            IN /\ Lookup(entries', key).timestamp = now
               /\ SelectSeq(entries', LAMBDA e : e.slot # key) = others
               /\ Len(entries') = Len(others) + 1
               /\ SlotsOf(entries) \ SlotsOf(entries')
                     = SlotsOf(SubSeq(entries, 1, ToRemove)) \ {key}
               /\ (key \notin SlotsOf(kept) => entries'[Len(entries')].slot = key)]_vars

\* a full store of maxSize 10 after a set of its oldest key: the key was
\* evicted as the oldest tenth and inserted again as the newest entry
C37_Witness ==
    /\ maxSize = 10 /\ Len(entries) = 10
    /\ entries[10].slot = 1 /\ entries[1].slot = 2
    /\ sets = 11

\* ------------------------------------------------------------- the sweep
\* C38: a run of the cleanup timer removes from both Maps exactly the
\* entries with now - timestamp >= ttl, keeps every other entry as it is and
\* in its order, and leaves the hit and miss counters and the in-flight
\* trackers alone; and a call answered from the cache never gets the data of
\* an entry whose age is ttl or more.
C38_SweepRemovesExactlyExpired ==
    /\ [][nextSweep' # nextSweep =>
            /\ \A k \in CacheKinds :
                  /\ cache'[k] = SelectSeq(cache[k],
                                     LAMBDA e : now - e.timestamp < CacheTtl)
                  /\ \A i \in 1..Len(cache'[k]) :
                        now - cache'[k][i].timestamp < CacheTtl
            /\ stats' = stats
            /\ requests' = requests /\ waiting' = waiting]_vars
    /\ [][\A r \in returned' \ returned :
            (r.via = 0 /\ r.result # "none")
                => /\ Has(cache[r.kind], r.slot)
                   /\ now - Lookup(cache[r.kind], r.slot).timestamp < CacheTtl
                   /\ r.result = Lookup(cache[r.kind], r.slot).data]_vars

\* a sweep has removed the entries of the earlier batches, which had
\* answered the first call, and kept a younger entry; hits and misses have
\* been counted
C38_Witness ==
    /\ \E r \in returned : r.call = 1 /\ r.via = 0 /\ r.result = "value"
    /\ Len(cache.blocks) = 1
    /\ cache.blocks[1].timestamp > StartMinutes * Minute
    /\ stats.hits.blocks >= 1 /\ stats.misses.blocks >= 1

\* ------------------------------------------------ the MEV-reward lookup
MevMessagesFor(b) == {i \in 1..Len(sent) : sent[i].kind \in MevKinds /\ sent[i].batch = b}

\* the batches that have ended: every started batch but the active one
EndedBatches == {b \in 1..batchCount : \A i \in ActiveBatches : b # batchCount}

C39_WitnessAnsweredLate ==
    /\ <<1, "noReward">> \in mevSettled
    /\ MevMessagesFor(1) # {}
    /\ batchCount = 3

\* ------------------------------------------------ a failed head request
IsLoopError(e) == e.kind = "InternalError" /\ e.label = "loop"

\* C40: when the head request of an iteration fails, the iteration starts
\* no batch and classifies nothing, leaves the cursor in memory and on disk
\* unchanged, sends nothing but at most one error notification of the main
\* loop, and the loop is at its next poll, not stopped.
C40_FailedHeadRequest ==
    /\ [](pc = "sleep" => ENABLED MainLoopHead)
    /\ [][failedPolls' # failedPolls
            => /\ lastBlock' = lastBlock /\ persisted' = persisted
               /\ batches' = batches /\ classified' = classified
               /\ skipped' = skipped
               /\ \/ events' = events
                  \/ /\ Len(events') = Len(events) + 1
                     /\ SubSeq(events', 1, Len(events)) = events
                     /\ IsLoopError(events'[Len(events')])
               /\ pc' = "sleep"]_vars

\* after a failed head request and its error notification, a later
\* iteration has processed a batch and moved the cursor
C40_Witness ==
    /\ failedPolls >= 1
    /\ \E i \in 1..Len(events) : \E j \in 1..Len(events) :
          i < j /\ IsLoopError(events[i]) /\ events[j].kind # "InternalError"
    /\ lastBlock > 0


====
